---------------------------- MODULE Spec2Model ----------------------------
(***************************************************************************)
(* A model of bundlewrap's metadata generator (src/bundlewrap/metagen.py): *)
(* PathSet, the per-node metadata proxy (NodeMetadataProxy) and the        *)
(* reactor fixed-point loop of MetadataGenerator.                          *)
(*                                                                         *)
(* Metadata is modelled as flat mappings from keys to naturals; a path is  *)
(* a sequence of keys.  Reactors are given as data (what they read, what   *)
(* they return) and are evaluated against the metastacks as the code       *)
(* evaluates the callables.                                                *)
(***************************************************************************)
EXTENDS Integers, Sequences, FiniteSets, TLC

(***************************************************************************)
(* Bounds of the model.                                                    *)
(***************************************************************************)
\* longest path added to the PathSet under test
MaxPathLen == 2
\* number of get() calls each caller makes
MaxGets == 2

\* BW_MAX_METADATA_ITERATIONS: the model runs with the environment variable
\* set to a small value instead of the default of 1000.
MAX_METADATA_ITERATIONS == 6

\* NO_DEFAULT marker of NodeMetadataProxy.get
NO_DEFAULT == -1

(***************************************************************************)
(* Paths and PathSet                                                       *)
(***************************************************************************)
Segs == {"a", "b"}

RECURSIVE PathsUpTo(_)
PathsUpTo(n) ==
    IF n = 0 THEN {<<>>}
    ELSE LET shorter == PathsUpTo(n - 1)
         IN  shorter \cup {Append(p, s) : p \in shorter, s \in Segs}

PathUniverse == PathsUpTo(MaxPathLen)

\* utils.list_starts_with(list_a, list_b): list_a[:len(list_b)] == list_b
list_starts_with(list_a, list_b) ==
    /\ Len(list_b) <= Len(list_a)
    /\ SubSeq(list_a, 1, Len(list_b)) = list_b

\* PathSet.covers
covers(paths, candidate_path) ==
    \E existing_path \in paths : list_starts_with(candidate_path, existing_path)

\* PathSet.add without the early return for a path that is already covered
PathSetAdd_without_covers(paths, new_path) ==
    {e \in paths : ~list_starts_with(e, new_path)} \cup {new_path}

\* PathSet.add without the removal of the paths below the new one
PathSetAdd_keeps_longer(paths, new_path) ==
    IF covers(paths, new_path)
    THEN paths
    ELSE paths \cup {new_path}

\* PathSet.add, the set it leaves behind
PathSetAdd(paths, new_path) ==
    IF covers(paths, new_path)
    THEN paths
    ELSE {e \in paths : ~list_starts_with(e, new_path)} \cup {new_path}

\* PathSet.add, its return value
PathSetAddReturns(paths, new_path) == ~covers(paths, new_path)

(***************************************************************************)
(* Nodes, metadata and reactors (the inputs of the metadata generator)     *)
(***************************************************************************)
Nodes == {"A", "B"}

\* the value of a key no layer provides
MISSING == -1

EmptyMapping == [k \in {} |-> 0]

\* The repositories the model is run on.
\*   chain, cross, flip: the three metadata scenarios of the specification
\*   pingpong: two reactors feeding each other, never converging
\*   lost:     a reactor reading a key nobody provides
\*   dnra:     a reactor that signals DoNotRunAgain once its input exists
\*   prov:     reactors declaring the paths they provide
\*   quiet:    as prov, the reading reactor returning nothing while its
\*             input is missing
\*   probe:    a reactor that looks at another node and then signals
\*             DoNotRunAgain
Scenarios ==
    {"chain", "cross", "flip", "pingpong", "lost", "dnra", "prov", "quiet",
     "probe"}

\* relay:  a reactor on A reading what a reactor on B returns
\* blamer: a reactor that asks its view for metadata.blame
\* settle: a reactor that returns a fallback until another reactor's output
\*         exists, and signals DoNotRunAgain from then on
RelayScenarios == Scenarios \cup {"relay", "blamer", "settle"}

\* node.metadata_reactors
ReactorsOf(s, n) ==
    IF n # "A" THEN (IF s = "relay" THEN {"src"} ELSE {})
    ELSE CASE s = "chain"    -> {"R1", "R2"}
           [] s = "cross"    -> {"peer"}
           [] s = "flip"     -> {"flip"}
           [] s = "pingpong" -> {"ping", "pong"}
           [] s = "lost"     -> {"R1", "lost"}
           [] s = "dnra"     -> {"R1", "once"}
           [] s = "prov"     -> {"pa", "pb"}
           [] s = "quiet"    -> {"pw", "pb"}
           [] s = "probe"    -> {"probe"}
           [] s = "relay"    -> {"sink"}
           [] s = "blamer"   -> {"R1", "blamer"}
           [] s = "settle"   -> {"R1", "settle"}
           [] OTHER          -> {}

AllReactors ==
    UNION {ReactorsOf(s, n) : s \in RelayScenarios, n \in Nodes}

\* node._attributes['metadata'], installed as layer "node:<name>" of tier 0
StaticMetadata(s, n) ==
    IF n = "B" /\ s \in {"cross", "probe"} THEN ("name" :> 7)
    ELSE EmptyMapping

\* node.metadata_defaults, installed in tier 2
MetadataDefaults(s, n) ==
    IF n = "B" /\ s = "cross" THEN ("name" :> 0) ELSE EmptyMapping

Rd(n, k, d) == [node |-> n, key |-> k, dflt |-> d]

\* what a reactor reads through the views, in order: metadata.get((key,), dflt)
\* on the view of `node` ("self": the node the reactor runs on)
ReactorReads(r) ==
    CASE r = "R2"    -> <<Rd("self", "a", NO_DEFAULT)>>
      [] r = "peer"  -> <<Rd("B", "name", NO_DEFAULT)>>
      [] r = "flip"  -> <<Rd("self", "x", 0)>>
      [] r = "ping"  -> <<Rd("self", "y", 0)>>
      [] r = "pong"  -> <<Rd("self", "x", 0)>>
      [] r = "lost"  -> <<Rd("self", "nokey", NO_DEFAULT)>>
      [] r = "once"  -> <<Rd("self", "a", NO_DEFAULT)>>
      [] r = "pa"    -> <<Rd("self", "b", NO_DEFAULT)>>
      [] r = "pw"    -> <<Rd("self", "b", 0)>>
      [] r = "probe" -> <<Rd("B", "name", 0)>>
      [] r = "sink"  -> <<Rd("B", "v", NO_DEFAULT)>>
      [] r = "settle" -> <<Rd("self", "a", 0)>>
      [] OTHER       -> <<>>

\* reactors that raise DoNotRunAgain when all their reads succeeded
RaisesDoNotRunAgain(r) == r \in {"once", "probe"}

\* reactors that raise DoNotRunAgain once what they read is not 0
RaisesDoNotRunAgainOnInput(r) == r = "settle"

\* reactors that call node.metadata.blame
CallsBlame(r) == r = "blamer"

\* reactors that return the empty mapping while all they read is 0
ReturnsNothingOnZero(r) == r = "pw"

\* the key a reactor returns, and what it adds to the sum of the values read
ReactorOutKey(r) ==
    CASE r = "R1"   -> "a"
      [] r = "R2"   -> "b"
      [] r = "peer" -> "peer"
      [] r = "flip" -> "x"
      [] r = "ping" -> "x"
      [] r = "pong" -> "y"
      [] r = "lost" -> "c"
      [] r = "pa"   -> "a"
      [] r = "pw"   -> "a"
      [] r = "pb"   -> "b"
      [] r = "src"  -> "v"
      [] r = "sink" -> "w"
      [] r = "settle" -> "s"
      [] OTHER      -> "z"

ReactorAdds(r) == IF r = "peer" THEN 0 ELSE 1

\* reactor._provides
ReactorProvides(r) ==
    CASE r = "pa" -> {<<"a">>}
      [] r = "pw" -> {<<"a">>}
      [] r = "pb" -> {<<"b">>}
      [] OTHER    -> {}

\* the get() calls made from outside the reactors: <<node, path>>
Requests(s) ==
    CASE s \in {"prov", "quiet"} -> {<<"A", <<"a">>>>, <<"A", <<>>>>}
      [] s = "cross" -> {<<"A", <<"peer">>>>, <<"B", <<"name">>>>}
      [] s = "probe" -> {<<"A", <<>>>>, <<"B", <<"name">>>>}
      [] OTHER       -> {<<"A", <<"b">>>>, <<"A", <<>>>>}

(***************************************************************************)
(* State                                                                   *)
(***************************************************************************)
VARIABLES
    \* PathSet under test
    ps, ps_last,
    \* the repository and the number of calling threads
    scn, nthreads,
    \* NodeMetadataProxy, per node
    requested,          \* _requested_paths
    completed,          \* _completed_reactors
    satisfied,          \* _satisfied
    came_from_cache,    \* _metastack_came_from_cache: "None" or "False"
    static_set,         \* tiers 0 and 2 of the metastack are installed
    layers,             \* tier 1 of the metastack: reactor name -> mapping
    \* MetadataGenerator
    in_a_reactor,       \* _in_a_reactor
    partial_accessed,   \* _partial_metadata_accessed_for
    do_not_run_again, keyerrors, node_deps, node_iterations,
    node_stable,        \* dict in insertion order: sequence of [node, stable]
    nodes_that_never_ran, triggered_nodes, nodes_that_ran_at_least_once,
    reactors_run, reactor_changes, reactors_with_deps,
    lock,               \* _node_metadata_lock: 0 or the thread holding it
    QUIT_EVENT,
    \* control: where _build_node_metadata and __run_reactors stand
    pc, st, rr,
    \* the calling threads
    tpc, treq, gets, tres,
    \* history of the current build, kept for the properties
    hist,
    \* deps.py: the item list given to prepare_dependencies, how far
    \* prepare_dependencies got, the error it raised, and what it did
    items, prep, prep_error, prep_hist

itemVars == <<items, prep, prep_error, prep_hist>>

psVars == <<ps, ps_last, itemVars>>

proxyVars == <<requested, completed, satisfied, came_from_cache, static_set, layers>>

genVars ==
    <<do_not_run_again, keyerrors, node_deps, node_iterations, node_stable,
      nodes_that_never_ran, triggered_nodes, nodes_that_ran_at_least_once,
      reactors_run, reactor_changes, reactors_with_deps>>

callerVars == <<tpc, treq, gets, tres>>

vars ==
    <<ps, ps_last, scn, nthreads, requested, completed, satisfied,
      came_from_cache, static_set, layers, in_a_reactor, partial_accessed,
      do_not_run_again, keyerrors, node_deps, node_iterations, node_stable,
      nodes_that_never_ran, triggered_nodes, nodes_that_ran_at_least_once,
      reactors_run, reactor_changes, reactors_with_deps, lock, QUIT_EVENT,
      pc, st, rr, tpc, treq, gets, tres, hist, itemVars>>

Threads == 1 .. nthreads

\* the (node name, reactor name) pairs of the repository
Pairs == {x \in Nodes \X AllReactors : x[2] \in ReactorsOf(scn, x[1])}

(***************************************************************************)
(* Metastack                                                               *)
(***************************************************************************)
\* Metastack.get((key,)): tier 0 wins over tier 1 over tier 2; MISSING stands
\* for the KeyError
StackValue(s, statics, lay, n, k) ==
    IF statics[n] /\ k \in DOMAIN StaticMetadata(s, n)
    THEN StaticMetadata(s, n)[k]
    ELSE IF \E r \in DOMAIN lay[n] : k \in DOMAIN lay[n][r]
    THEN lay[n][CHOOSE r \in DOMAIN lay[n] : k \in DOMAIN lay[n][r]][k]
    ELSE IF statics[n] /\ k \in DOMAIN MetadataDefaults(s, n)
    THEN MetadataDefaults(s, n)[k]
    ELSE MISSING

StackKeys(s, statics, lay, n) ==
    (IF statics[n]
     THEN DOMAIN StaticMetadata(s, n) \cup DOMAIN MetadataDefaults(s, n)
     ELSE {})
    \cup UNION {DOMAIN lay[n][r] : r \in DOMAIN lay[n]}

\* Metastack._as_dict()
AsDict(s, statics, lay, n) ==
    [k \in StackKeys(s, statics, lay, n) |-> StackValue(s, statics, lay, n, k)]

\* Metastack.get(path): the whole mapping for the empty path, a value for a
\* key, MISSING below a value
StackGet(s, statics, lay, n, path) ==
    IF path = <<>> THEN AsDict(s, statics, lay, n)
    ELSE IF Len(path) = 1 THEN StackValue(s, statics, lay, n, path[1])
    ELSE MISSING

\* a reactor run that leaves the reactor's own layer in the stack
PopLayer_keeps(lay, n, r) == lay

\* Metastack._pop_layer(1, name): the stack without the layer
PopLayer(lay, n, r) ==
    [lay EXCEPT ![n] = [x \in DOMAIN lay[n] \ {r} |-> lay[n][x]]]

\* Metastack._pop_layer(1, name): the mapping it returns
PoppedLayer(lay, n, r) ==
    IF r \in DOMAIN lay[n] THEN lay[n][r] ELSE EmptyMapping

\* Metastack._set_layer(1, name, mapping)
SetLayer(lay, n, r, mapping) ==
    [lay EXCEPT ![n] = [x \in DOMAIN lay[n] \cup {r} |->
                            IF x = r THEN mapping ELSE lay[n][x]]]

(***************************************************************************)
(* NodeMetadataProxy                                                       *)
(***************************************************************************)
\* reactors_for_paths
reactors_for_paths(available_reactors, required_paths) ==
    {r \in available_reactors :
        \/ ReactorProvides(r) = {}
        \/ \E path \in ReactorProvides(r) : covers(required_paths, path)}

\* NodeMetadataProxy._relevant_reactors; the cache of it is dropped whenever
\* _requested_paths grows, so it always equals the recomputed set
RelevantReactors(s, req, n) == reactors_for_paths(ReactorsOf(s, n), req[n])

\* NodeMetadataProxy._pending_reactors
PendingReactors(s, req, comp, n) == RelevantReactors(s, req, n) \ comp[n]

\* the first lines of NodeMetadataProxy.get: _requested_paths.add(path), and
\* _satisfied cleared when the set grew.  The disk cache is not configured
\* (BW_METADATA_CACHE_DIR unset), so __read_disk_cache raises and nothing is
\* loaded.
GetRequests(px, n, path) ==
    [requested |-> [px.requested EXCEPT ![n] = PathSetAdd(@, path)],
     satisfied |-> IF PathSetAddReturns(px.requested[n], path)
                   THEN [px.satisfied EXCEPT ![n] = FALSE]
                   ELSE px.satisfied]


(***************************************************************************)
(* Initial state                                                           *)
(***************************************************************************)
NoHistory ==
    [build |-> 0,
     outcome |-> "none",
     stages_completed |-> FALSE,
     quit_seen |-> FALSE,
     runs |-> [x \in Pairs |-> 0],
     last |-> [x \in Pairs |-> "none"],
     initial_runs |-> [n \in Nodes |-> 0],
     started |-> FALSE,
     calls_this_pass |-> 0,
     read |-> {},
     reported |-> {}]

NoStage == [seq |-> <<>>, set |-> {}, enc |-> FALSE, cur |-> "A"]

NoRun ==
    [node |-> "A", with_deps |-> FALSE, without_deps |-> FALSE,
     any_changed |-> FALSE, depsonly |-> TRUE, todo |-> {}, reactor |-> "",
     old |-> EmptyMapping, ret |-> "loop"]

\* NodeMetadataProxy.__init__ for every node
InitProxies ==
    /\ requested = [n \in Nodes |-> {}]
    /\ completed = [n \in Nodes |-> {}]
    /\ satisfied = [n \in Nodes |-> FALSE]
    /\ came_from_cache = [n \in Nodes |-> "None"]
    /\ static_set = [n \in Nodes |-> FALSE]
    /\ layers = [n \in Nodes |-> EmptyMapping]

\* MetadataGenerator.__reset, as a predicate on the values it assigns
Reset(dnra, kerr, deps, iters, stable, never, trig, ran, runs, changes, wdeps) ==
    /\ dnra = {}
    /\ kerr = {}
    /\ deps = [n \in Nodes |-> {}]
    /\ iters = [n \in Nodes |-> 0]
    /\ stable = <<>>
    /\ never = {}
    /\ trig = {}
    /\ ran = {}
    /\ runs = 0
    /\ changes = [x \in Pairs |-> 0]
    /\ wdeps = [n \in Nodes |-> {}]

InitGenerator ==
    /\ in_a_reactor = FALSE
    /\ partial_accessed = {}
    /\ Reset(do_not_run_again, keyerrors, node_deps, node_iterations,
             node_stable, nodes_that_never_ran, triggered_nodes,
             nodes_that_ran_at_least_once, reactors_run, reactor_changes,
             reactors_with_deps)
    /\ lock = 0
    /\ QUIT_EVENT = FALSE
    /\ pc = "idle"
    /\ st = NoStage
    /\ rr = NoRun
    /\ hist = NoHistory

NoResult == [value |-> EmptyMapping, skipped |-> FALSE, during_build |-> FALSE,
             raised |-> "none"]

InitCallers(k) ==
    /\ nthreads = k
    /\ tpc = [t \in 1 .. k |-> "idle"]
    /\ treq = [t \in 1 .. k |-> <<"A", <<>>>>]
    /\ gets = [t \in 1 .. k |-> 0]
    /\ tres = [t \in 1 .. k |-> NoResult]

\* PathSet.__init__; ps_last records the latest add call, what it returned
\* and how many members it removed
InitPS ==
    /\ ps = {}
    /\ ps_last = [path |-> <<>>, returned |-> FALSE, removed |-> 0]

\* no item list has been handed to prepare_dependencies
NoPrepHistory ==
    [graph |-> "none", calls |-> [i \in {} |-> 0], chain_groups |-> <<>>,
     item_types |-> <<>>, given |-> <<>>]

\* no exception
NoPrepError ==
    [kind |-> "none", item |-> [type |-> "", name |-> ""], bundle |-> "",
     dep |-> [type |-> "", name |-> ""],
     item2 |-> [type |-> "", name |-> ""], bundle2 |-> ""]

InitNoItems ==
    /\ items = <<>>
    /\ prep = "none"
    /\ prep_error = NoPrepError
    /\ prep_hist = NoPrepHistory

Init ==
    /\ scn \in Scenarios
    /\ InitPS
    /\ InitNoItems
    /\ InitProxies
    /\ InitGenerator
    /\ InitCallers(1)

(***************************************************************************)
(* Callers: NodeMetadataProxy.get from outside the reactors                *)
(***************************************************************************)
\* dict node_stable: lookup, assignment (a new key goes last), keys
StableOf(stable, n) ==
    LET i == CHOOSE i \in 1 .. Len(stable) : stable[i].node = n
    IN  stable[i].stable

StableKeys(stable) == {stable[i].node : i \in 1 .. Len(stable)}

SetStable(stable, n, v) ==
    IF n \in StableKeys(stable)
    THEN [i \in 1 .. Len(stable) |->
             IF stable[i].node = n THEN [node |-> n, stable |-> v]
             ELSE stable[i]]
    ELSE Append(stable, [node |-> n, stable |-> v])

\* get(path), up to the test of _in_a_reactor: inside a reactor (of another
\* thread) the node is recorded in _partial_metadata_accessed_for and the
\* build is skipped, otherwise the caller goes for the lock
CallGet(t) ==
    /\ tpc[t] = "idle"
    /\ gets[t] < MaxGets
    /\ \E q \in Requests(scn) :
         LET px == GetRequests([requested |-> requested,
                                satisfied |-> satisfied], q[1], q[2])
         IN  /\ treq' = [treq EXCEPT ![t] = q]
             /\ requested' = px.requested
             /\ satisfied' = px.satisfied
             /\ IF in_a_reactor
                THEN /\ partial_accessed' = partial_accessed \cup {q[1]}
                     /\ tpc' = [tpc EXCEPT ![t] = "read"]
                     /\ tres' = [tres EXCEPT ![t] =
                                   [NoResult EXCEPT !.skipped = TRUE]]
                ELSE /\ partial_accessed' = partial_accessed
                     /\ tpc' = [tpc EXCEPT ![t] = "lock"]
                     /\ tres' = [tres EXCEPT ![t] = NoResult]
    /\ UNCHANGED <<psVars, scn, nthreads, completed, came_from_cache,
                   static_set, layers, in_a_reactor, genVars, lock,
                   QUIT_EVENT, pc, st, rr, gets, hist>>

\* with self._metagen._node_metadata_lock: _build_node_metadata(name), up to
\* __reset and the first node: a satisfied view returns at once
BuildEnter(t) ==
    /\ tpc[t] = "lock"
    /\ lock = 0
    /\ IF satisfied[treq[t][1]]
       THEN /\ tpc' = [tpc EXCEPT ![t] = "read"]
            /\ UNCHANGED <<genVars, lock, pc, st, rr, hist>>
       ELSE /\ tpc' = [tpc EXCEPT ![t] = "build"]
            /\ lock' = t
            /\ Reset(do_not_run_again', keyerrors', node_deps',
                     node_iterations', node_stable', {}, triggered_nodes',
                     nodes_that_ran_at_least_once', reactors_run',
                     reactor_changes', reactors_with_deps')
            /\ nodes_that_never_ran' = {treq[t][1]}
            /\ pc' = "loop"
            /\ st' = NoStage
            /\ rr' = NoRun
            /\ hist' = [NoHistory EXCEPT !.build = hist.build + 1]
    /\ UNCHANGED <<psVars, scn, nthreads, proxyVars, in_a_reactor,
                   partial_accessed, QUIT_EVENT, treq, gets, tres>>

\* the end of get: self._metastack.get(path); no default is given, so a
\* missing key raises KeyError
\* what get hands to its caller, kept as a mapping: the whole dict for the
\* empty path, the one key with its value for a key, nothing for a miss
GetResult(n, path) ==
    LET v == StackGet(scn, static_set, layers, n, path)
    IN  IF path = <<>> THEN v
        ELSE IF v = MISSING THEN EmptyMapping
        ELSE (path[1] :> v)

ReadStack(t) ==
    /\ tpc[t] = "read"
    /\ tres' = [tres EXCEPT ![t] =
                  [@ EXCEPT !.value = GetResult(treq[t][1], treq[t][2]),
                            !.during_build = (lock # 0)]]
    /\ tpc' = [tpc EXCEPT ![t] = "idle"]
    /\ gets' = [gets EXCEPT ![t] = @ + 1]
    /\ UNCHANGED <<psVars, scn, nthreads, proxyVars, in_a_reactor,
                   partial_accessed, genVars, lock, QUIT_EVENT, pc, st, rr,
                   treq, hist>>

(***************************************************************************)
(* MetadataGenerator._build_node_metadata: the loop and its four stages    *)
(***************************************************************************)
fixedVars == <<ps, ps_last, scn, nthreads, itemVars>>

\* the frame of a call __run_reactors(node, with_deps, without_deps); ret is
\* where the caller goes on
RunFrame(n, with_deps, without_deps, ret) ==
    [NoRun EXCEPT !.node = n, !.with_deps = with_deps,
                  !.without_deps = without_deps, !.ret = ret]

\* an exception leaves _build_node_metadata and get: the lock is released and
\* the caller is back outside with the exception
Raise(what) ==
    /\ hist' = [hist EXCEPT !.outcome = what]
    /\ pc' = "idle"
    /\ tpc' = [tpc EXCEPT ![lock] = "idle"]
    /\ gets' = [gets EXCEPT ![lock] = @ + 1]
    /\ tres' = [tres EXCEPT ![lock] = [@ EXCEPT !.raised = what]]
    /\ lock' = 0

\* a loop that does not look at QUIT_EVENT
LoopCondition_ignores_quit == TRUE

\* while not QUIT_EVENT.is_set():
LoopCondition == ~QUIT_EVENT

\* the head of the loop of _build_node_metadata, at entry and after _StartOver
LoopHead ==
    /\ pc = "loop"
    /\ IF ~LoopCondition
       THEN /\ pc' = "after"
            /\ hist' = [hist EXCEPT !.quit_seen = TRUE, !.started = TRUE]
       ELSE /\ pc' = "new"
            /\ hist' = [hist EXCEPT !.calls_this_pass = 0, !.started = TRUE]
    /\ UNCHANGED <<fixedVars, proxyVars, in_a_reactor, partial_accessed,
                   genVars, lock, QUIT_EVENT, st, rr, callerVars>>

\* __run_new_nodes with a node to pop, and __initial_run_for_node up to its
\* call of __run_reactors: the static layers (tiers 2 and 0) are installed
RunNewNodes ==
    /\ pc = "new"
    /\ \E n \in nodes_that_never_ran :
         /\ nodes_that_never_ran' = nodes_that_never_ran \ {n}
         /\ nodes_that_ran_at_least_once' = nodes_that_ran_at_least_once \cup {n}
         /\ static_set' = [static_set EXCEPT ![n] = TRUE]
         /\ rr' = RunFrame(n, TRUE, TRUE, "loop")
         /\ hist' = [hist EXCEPT !.initial_runs[n] = @ + 1]
    /\ pc' = "rr_check"
    /\ UNCHANGED <<fixedVars, requested, completed, satisfied, came_from_cache,
                   layers, in_a_reactor, partial_accessed, do_not_run_again,
                   keyerrors, node_deps, node_iterations, node_stable,
                   triggered_nodes, reactors_run, reactor_changes,
                   reactors_with_deps, lock, QUIT_EVENT, st, callerVars>>

\* __run_new_nodes with nothing to pop
NoNewNodes ==
    /\ pc = "new"
    /\ nodes_that_never_ran = {}
    /\ pc' = "triggered"
    /\ UNCHANGED <<fixedVars, proxyVars, in_a_reactor, partial_accessed,
                   genVars, lock, QUIT_EVENT, st, rr, callerVars, hist>>

\* __run_triggered_nodes with a node to pop
RunTriggeredNodes ==
    /\ pc = "triggered"
    /\ \E n \in triggered_nodes :
         /\ triggered_nodes' = triggered_nodes \ {n}
         /\ rr' = RunFrame(n, TRUE, FALSE, "loop")
    /\ pc' = "rr_check"
    /\ UNCHANGED <<fixedVars, proxyVars, in_a_reactor, partial_accessed,
                   do_not_run_again, keyerrors, node_deps, node_iterations,
                   node_stable, nodes_that_never_ran,
                   nodes_that_ran_at_least_once, reactors_run,
                   reactor_changes, reactors_with_deps, lock, QUIT_EVENT, st,
                   callerVars, hist>>

\* __run_triggered_nodes with nothing to pop; __run_unstable_nodes starts its
\* loop over node_stable.items()
NoTriggeredNodes ==
    /\ pc = "triggered"
    /\ triggered_nodes = {}
    /\ pc' = "unstable"
    /\ st' = [NoStage EXCEPT
                !.seq = [i \in 1 .. Len(node_stable) |-> node_stable[i].node]]
    /\ UNCHANGED <<fixedVars, proxyVars, in_a_reactor, partial_accessed,
                   genVars, lock, QUIT_EVENT, rr, callerVars, hist>>

\* one turn of the loop of __run_unstable_nodes, or its end
UnstableNodesNext ==
    /\ pc = "unstable"
    /\ IF st.seq = <<>>
       THEN /\ IF st.enc
               THEN pc' = "loop" /\ st' = st
               ELSE /\ pc' = "withdeps"
                    \* randomize_order(self.__node_stable.keys())
                    /\ st' = [NoStage EXCEPT !.set = StableKeys(node_stable)]
            /\ rr' = rr
       ELSE LET n == Head(st.seq)
            IN  IF StableOf(node_stable, n)
                THEN /\ st' = [st EXCEPT !.seq = Tail(st.seq)]
                     /\ UNCHANGED <<pc, rr>>
                ELSE /\ st' = [st EXCEPT !.seq = Tail(st.seq), !.cur = n]
                     /\ rr' = RunFrame(n, FALSE, TRUE, "unstable_ret")
                     /\ pc' = "rr_check"
    /\ UNCHANGED <<fixedVars, proxyVars, in_a_reactor, partial_accessed,
                   genVars, lock, QUIT_EVENT, callerVars, hist>>

\* __run_unstable_nodes after __run_reactors returned
UnstableNodesRet ==
    /\ pc = "unstable_ret"
    /\ st' = [st EXCEPT !.enc = @ \/ ~StableOf(node_stable, st.cur)]
    /\ pc' = IF nodes_that_never_ran # {} THEN "loop" ELSE "unstable"
    /\ UNCHANGED <<fixedVars, proxyVars, in_a_reactor, partial_accessed,
                   genVars, lock, QUIT_EVENT, rr, callerVars, hist>>

\* one turn of the loop of __run_nodes_with_deps, in any order, or its end
NodesWithDepsNext ==
    /\ pc = "withdeps"
    /\ IF st.set = {}
       THEN /\ pc' = IF st.enc THEN "loop" ELSE "mark"
            /\ UNCHANGED <<st, rr>>
       ELSE \E n \in st.set :
              /\ st' = [st EXCEPT !.set = @ \ {n}, !.cur = n]
              /\ rr' = RunFrame(n, TRUE, FALSE, "withdeps_ret")
              /\ pc' = "rr_check"
    /\ UNCHANGED <<fixedVars, proxyVars, in_a_reactor, partial_accessed,
                   genVars, lock, QUIT_EVENT, callerVars, hist>>

\* __run_nodes_with_deps after __run_reactors returned
NodesWithDepsRet ==
    /\ pc = "withdeps_ret"
    /\ st' = [st EXCEPT !.enc = @ \/ ~StableOf(node_stable, st.cur)]
    /\ pc' = IF nodes_that_never_ran # {} THEN "loop" ELSE "withdeps"
    /\ UNCHANGED <<fixedVars, proxyVars, in_a_reactor, partial_accessed,
                   genVars, lock, QUIT_EVENT, rr, callerVars, hist>>

\* _completed_reactors updated for the node the build was started for only
CompletedAfter_first_node(comp, req, stable) ==
    [n \in Nodes |->
        IF stable # <<>> /\ n = stable[1].node
        THEN comp[n] \cup RelevantReactors(scn, req, n)
        ELSE comp[n]]

\* proxy._completed_reactors.update(proxy._relevant_reactors) for every node
\* of __node_stable
CompletedAfter(comp, req, stable) ==
    [n \in Nodes |->
        IF n \in StableKeys(stable)
        THEN comp[n] \cup RelevantReactors(scn, req, n)
        ELSE comp[n]]

\* all four stages passed: every node of node_stable is marked, then break
MarkSatisfied ==
    /\ pc = "mark"
    /\ completed' = CompletedAfter(completed, requested, node_stable)
    /\ satisfied' = [n \in Nodes |->
                       IF n \in StableKeys(node_stable) THEN TRUE
                       ELSE satisfied[n]]
    /\ came_from_cache' = [n \in Nodes |->
                       IF n \in StableKeys(node_stable) THEN "False"
                       ELSE came_from_cache[n]]
    /\ hist' = [hist EXCEPT !.stages_completed = TRUE]
    /\ pc' = "after"
    /\ UNCHANGED <<fixedVars, requested, static_set, layers, in_a_reactor,
                   partial_accessed, genVars, lock, QUIT_EVENT, st, rr,
                   callerVars>>

\* after the loop: MetadataPersistentKeyError, or the normal return into get
AfterLoop ==
    /\ pc = "after"
    /\ IF keyerrors # {} /\ ~QUIT_EVENT
       THEN Raise("PersistentKeyError")
       ELSE /\ hist' = [hist EXCEPT !.outcome = "returned"]
            /\ pc' = "idle"
            /\ tpc' = [tpc EXCEPT ![lock] = "read"]
            /\ lock' = 0
            /\ UNCHANGED <<gets, tres>>
    /\ UNCHANGED <<fixedVars, proxyVars, in_a_reactor, partial_accessed,
                   genVars, QUIT_EVENT, st, rr, treq>>

(***************************************************************************)
(* MetadataGenerator.__run_reactors and __run_reactor                      *)
(***************************************************************************)
\* a cap that lets one more call through
IterationsExceeded_late(count) == count > MAX_METADATA_ITERATIONS + 1

\* self.__node_iterations[node_name] > MAX_METADATA_ITERATIONS
IterationsExceeded(count) == count > MAX_METADATA_ITERATIONS

\* __check_iteration_count at the head of __run_reactors
CheckIterationCount ==
    /\ pc = "rr_check"
    /\ node_iterations' = [node_iterations EXCEPT ![rr.node] = @ + 1]
    /\ IF IterationsExceeded(node_iterations[rr.node] + 1)
       THEN /\ Raise("RuntimeError")
            /\ rr' = rr
       ELSE /\ pc' = "rr_pass"
            /\ rr' = [rr EXCEPT !.any_changed = FALSE, !.depsonly = TRUE]
            /\ hist' = [hist EXCEPT !.calls_this_pass = @ + 1]
            /\ UNCHANGED <<lock, callerVars>>
    /\ UNCHANGED <<fixedVars, proxyVars, in_a_reactor, partial_accessed,
                   do_not_run_again, keyerrors, node_deps, node_stable,
                   nodes_that_never_ran, triggered_nodes,
                   nodes_that_ran_at_least_once, reactors_run,
                   reactor_changes, reactors_with_deps, QUIT_EVENT, st, treq>>

\* for depsonly in (True, False): a pass the flags skip, or the list
\* randomize_order makes of _pending_reactors
BeginPass ==
    /\ pc = "rr_pass"
    /\ IF (rr.depsonly /\ ~rr.with_deps) \/ (~rr.depsonly /\ ~rr.without_deps)
       THEN rr' = [rr EXCEPT !.todo = {}]
       ELSE rr' = [rr EXCEPT !.todo =
                      PendingReactors(scn, requested, completed, rr.node)]
    /\ pc' = "rr_pick"
    /\ UNCHANGED <<fixedVars, proxyVars, in_a_reactor, partial_accessed,
                   genVars, lock, QUIT_EVENT, st, callerVars, hist>>

\* the list of the pass is used up
EndPass ==
    /\ pc = "rr_pick"
    /\ rr.todo = {}
    /\ IF rr.depsonly
       THEN pc' = "rr_pass" /\ rr' = [rr EXCEPT !.depsonly = FALSE]
       ELSE pc' = "rr_end" /\ rr' = rr
    /\ UNCHANGED <<fixedVars, proxyVars, in_a_reactor, partial_accessed,
                   genVars, lock, QUIT_EVENT, st, callerVars, hist>>

\* a __run_reactor that does not look at __do_not_run_again
MustNotRunAgain_never(dnra, x) == FALSE

\* (node.name, reactor_name) in self.__do_not_run_again
MustNotRunAgain(dnra, x) == x \in dnra

\* the next reactor of the pass, in any order: skipped by the depsonly test,
\* a no-op of __run_reactor (DoNotRunAgain was raised before), or
\* __run_reactor up to the call of the reactor
PickReactor ==
    /\ pc = "rr_pick"
    /\ \E r \in rr.todo :
         IF \/ (rr.depsonly /\ r \notin reactors_with_deps[rr.node])
            \/ (~rr.depsonly /\ r \in reactors_with_deps[rr.node])
            \/ MustNotRunAgain(do_not_run_again, <<rr.node, r>>)
         THEN /\ rr' = [rr EXCEPT !.todo = @ \ {r}]
              /\ UNCHANGED <<pc, partial_accessed, reactors_run, layers,
                             in_a_reactor>>
         ELSE /\ rr' = [rr EXCEPT !.todo = @ \ {r}, !.reactor = r,
                                  !.old = PoppedLayer(layers, rr.node, r)]
              /\ partial_accessed' = {}
              /\ reactors_run' = reactors_run + 1
              /\ layers' = PopLayer(layers, rr.node, r)
              /\ in_a_reactor' = TRUE
              /\ pc' = "in_reactor"
    /\ UNCHANGED <<fixedVars, requested, completed, satisfied, came_from_cache,
                   static_set, do_not_run_again, keyerrors, node_deps,
                   node_iterations, node_stable, nodes_that_never_ran,
                   triggered_nodes, nodes_that_ran_at_least_once,
                   reactor_changes, reactors_with_deps, lock, QUIT_EVENT, st,
                   callerVars, hist>>

\* the reads of reactor r on node n, "self" resolved
ReadsOf(n, r) ==
    [i \in 1 .. Len(ReactorReads(r)) |->
        [ReactorReads(r)[i] EXCEPT
            !.node = IF @ = "self" THEN n ELSE @]]

\* what get(path, default) hands to the reactor: NO_DEFAULT stands for the
\* KeyError that leaves get
ReadResult(lay, rd) ==
    LET v == StackValue(scn, static_set, lay, rd.node, rd.key)
    IN  IF v = MISSING THEN rd.dflt ELSE v

\* the reads a run performs: up to and including the first that raises
PerformedReads(lay, reads) ==
    {i \in 1 .. Len(reads) :
        \A j \in 1 .. i - 1 : ReadResult(lay, reads[j]) # NO_DEFAULT}

RECURSIVE SumOfReads(_, _, _)
SumOfReads(lay, reads, k) ==
    IF k = 0 THEN 0
    ELSE ReadResult(lay, reads[k]) + SumOfReads(lay, reads, k - 1)

\* how the call reactor(node.metadata) ends on the stacks lay, and the mapping
\* it returns
ReactorOutcome(lay, n, r) ==
    LET reads == ReadsOf(n, r)
        sum == SumOfReads(lay, reads, Len(reads))
    IN  IF \E i \in 1 .. Len(reads) : ReadResult(lay, reads[i]) = NO_DEFAULT
        THEN [kind |-> "KeyError", out |-> EmptyMapping]
        ELSE IF CallsBlame(r)
        THEN [kind |-> "Exception", out |-> EmptyMapping]
        ELSE IF \/ RaisesDoNotRunAgain(r)
                \/ RaisesDoNotRunAgainOnInput(r) /\ sum # 0
        THEN [kind |-> "DoNotRunAgain", out |-> EmptyMapping]
        ELSE IF ReturnsNothingOnZero(r) /\ sum = 0
        THEN [kind |-> "returned", out |-> EmptyMapping]
        ELSE [kind |-> "returned",
              out |-> (ReactorOutKey(r) :> (ReactorAdds(r) + sum))]

\* the effect of the reactor's get calls on the proxies they go to:
\* _requested_paths, _satisfied, and the nodes recorded
RECURSIVE ReadEffects(_, _, _)
ReadEffects(reads, k, px) ==
    IF k = 0 THEN px
    ELSE LET before == ReadEffects(reads, k - 1, px)
         IN  IF k \notin PerformedReads(layers, reads) THEN before
             ELSE LET got == GetRequests(before, reads[k].node, <<reads[k].key>>)
                  IN  [requested |-> got.requested,
                       satisfied |-> got.satisfied,
                       accessed |-> before.accessed \cup {reads[k].node}]

\* __keyerrors without the clearing on DoNotRunAgain
KeyErrorsAfter_keeps_on_dnra(kerr, kind, x) ==
    IF kind = "returned" THEN kerr \ {x} ELSE kerr \cup {x}

\* __keyerrors after a run of reactor x: set on KeyError, cleared when the
\* reactor returned or raised DoNotRunAgain
KeyErrorsAfter(kerr, kind, x) ==
    IF kind = "KeyError" THEN kerr \cup {x} ELSE kerr \ {x}

\* deps that are only returned when the reactor returned
ReturnedDeps_not_on_keyerror(kind, accessed) ==
    IF kind = "returned" THEN accessed ELSE {}

\* the deps __run_reactor returns next to `changed`
ReturnedDeps(kind, accessed) ==
    IF kind = "DoNotRunAgain" THEN {} ELSE accessed

\* required nodes that are never added to __nodes_that_never_ran
NodesFound_none(deps, ran) == {}

\* the required nodes "that we didn't need until now": those of deps not in
\* __nodes_that_ran_at_least_once
NodesFound(deps, ran) == deps \ ran

\* old_metadata != new_metadata
Changed(kind, old, new) == kind = "returned" /\ old # new

\* the reactor call, the rest of __run_reactor, and what the loop of
\* __run_reactors does with the result
ReactorReturns ==
    /\ pc = "in_reactor"
    /\ ReactorOutcome(layers, rr.node, rr.reactor).kind # "Exception"
    /\ LET n == rr.node
           r == rr.reactor
           res == ReactorOutcome(layers, n, r)
           eff == ReadEffects(ReadsOf(n, r), Len(ReadsOf(n, r)),
                              [requested |-> requested,
                               satisfied |-> satisfied,
                               accessed |-> partial_accessed])
           changed == Changed(res.kind, rr.old, res.out)
           deps == ReturnedDeps(res.kind, eff.accessed)
       IN  /\ requested' = eff.requested
           /\ satisfied' = eff.satisfied
           /\ partial_accessed' = eff.accessed
           /\ in_a_reactor' = FALSE
           /\ keyerrors' = KeyErrorsAfter(keyerrors, res.kind, <<n, r>>)
           /\ do_not_run_again' = IF res.kind = "DoNotRunAgain"
                                  THEN do_not_run_again \cup {<<n, r>>}
                                  ELSE do_not_run_again
           /\ layers' = IF res.kind = "returned"
                        THEN SetLayer(layers, n, r, res.out)
                        ELSE layers
           /\ reactor_changes' = IF changed
                                 THEN [reactor_changes EXCEPT ![<<n, r>>] = @ + 1]
                                 ELSE reactor_changes
           /\ rr' = [rr EXCEPT !.any_changed = @ \/ changed]
           /\ reactors_with_deps' =
                 IF deps # {}
                 THEN [reactors_with_deps EXCEPT ![n] = @ \cup {r}]
                 ELSE reactors_with_deps
           /\ nodes_that_never_ran' =
                 nodes_that_never_ran
                     \cup NodesFound(deps, nodes_that_ran_at_least_once)
           /\ node_deps' = [m \in Nodes |->
                               IF m \in deps THEN node_deps[m] \cup {n}
                               ELSE node_deps[m]]
           /\ hist' = [hist EXCEPT
                          !.runs[<<n, r>>] = @ + 1,
                          !.last[<<n, r>>] = res.kind,
                          !.read = @ \cup
                              {<<n, m>> : m \in eff.accessed},
                          !.reported = @ \cup
                              IF res.kind = "DoNotRunAgain" THEN {}
                              ELSE {<<n, m>> : m \in eff.accessed}]
    /\ pc' = "rr_pick"
    /\ UNCHANGED <<fixedVars, completed, came_from_cache, static_set,
                   node_iterations, node_stable, triggered_nodes,
                   nodes_that_ran_at_least_once, reactors_run, lock,
                   QUIT_EVENT, st, callerVars>>

\* _in_a_reactor left set when the reactor raised
FlagAfterException_stays(flag) == flag

\* finally: self._in_a_reactor = False
FlagAfterException(flag) == FALSE

\* the reactor call ends with an exception other than KeyError and
\* DoNotRunAgain (here the RuntimeError of blame): it is raised again and
\* leaves __run_reactor, _build_node_metadata and get
ReactorRaises ==
    /\ pc = "in_reactor"
    /\ ReactorOutcome(layers, rr.node, rr.reactor).kind = "Exception"
    /\ LET eff == ReadEffects(ReadsOf(rr.node, rr.reactor),
                              Len(ReadsOf(rr.node, rr.reactor)),
                              [requested |-> requested,
                               satisfied |-> satisfied,
                               accessed |-> partial_accessed])
       IN  /\ requested' = eff.requested
           /\ satisfied' = eff.satisfied
           /\ partial_accessed' = eff.accessed
    /\ in_a_reactor' = FlagAfterException(in_a_reactor)
    /\ Raise("ReactorError")
    /\ UNCHANGED <<fixedVars, completed, came_from_cache, static_set, layers,
                   genVars, QUIT_EVENT, st, rr, treq>>

\* a change that triggers no node
TriggeredAfter_nobody(triggered, any_reactor_changed, dependents) == triggered

\* if any_reactor_changed: __triggered_nodes.add for every node of
\* __node_deps[node.name]
TriggeredAfter(triggered, any_reactor_changed, dependents) ==
    IF any_reactor_changed THEN triggered \cup dependents ELSE triggered

\* __node_stable at the end of __run_reactors
StableAfter(stable, run) ==
    IF run.with_deps /\ run.any_changed
    THEN SetStable(stable, run.node, FALSE)
    ELSE IF run.without_deps
    THEN SetStable(stable, run.node, ~run.any_changed)
    ELSE stable

\* the end of __run_reactors: dependent nodes are triggered, node_stable set
EndRunReactors ==
    /\ pc = "rr_end"
    /\ triggered_nodes' = TriggeredAfter(triggered_nodes, rr.any_changed,
                                         node_deps[rr.node])
    /\ node_stable' = StableAfter(node_stable, rr)
    /\ pc' = rr.ret
    /\ UNCHANGED <<fixedVars, proxyVars, in_a_reactor, partial_accessed,
                   do_not_run_again, keyerrors, node_deps, node_iterations,
                   nodes_that_never_ran, nodes_that_ran_at_least_once,
                   reactors_run, reactor_changes, reactors_with_deps, lock,
                   QUIT_EVENT, st, rr, callerVars, hist>>

\* QUIT_EVENT.set(), from the outside at any time
SetQuit ==
    /\ ~QUIT_EVENT
    /\ QUIT_EVENT' = TRUE
    /\ UNCHANGED <<fixedVars, proxyVars, in_a_reactor, partial_accessed,
                   genVars, lock, pc, st, rr, callerVars, hist>>

EngineNext ==
    \/ LoopHead
    \/ RunNewNodes
    \/ NoNewNodes
    \/ RunTriggeredNodes
    \/ NoTriggeredNodes
    \/ UnstableNodesNext
    \/ UnstableNodesRet
    \/ NodesWithDepsNext
    \/ NodesWithDepsRet
    \/ MarkSatisfied
    \/ AfterLoop
    \/ CheckIterationCount
    \/ BeginPass
    \/ EndPass
    \/ PickReactor
    \/ ReactorReturns
    \/ EndRunReactors

CallerNext ==
    \E t \in Threads :
        \/ CallGet(t)
        \/ BuildEnter(t)
        \/ ReadStack(t)

Next == EngineNext \/ CallerNext

Spec == Init /\ [][Next]_vars

\* the same generator on the repositories above and on "relay"
InitRelay ==
    /\ scn \in RelayScenarios
    /\ InitPS
    /\ InitNoItems
    /\ InitProxies
    /\ InitGenerator
    /\ InitCallers(1)

NextRelay == Next \/ ReactorRaises

SpecRelay == InitRelay /\ [][NextRelay]_vars

\* NodeMetadataProxy.blame and NodeMetadataProxy.stack of the view of node n,
\* called from outside the reactors by thread t: RuntimeError while a
\* reactor is running; otherwise __ensure_uncached_metastack (no stack came
\* from the disk cache, so nothing is thrown away) goes for the lock and
\* the build, and the whole stack is read
ViewProperty(t, n) ==
    /\ tpc[t] = "idle"
    /\ gets[t] < MaxGets
    /\ treq' = [treq EXCEPT ![t] = <<n, <<>>>>]
    /\ IF in_a_reactor
       THEN /\ tres' = [tres EXCEPT ![t] =
                          [NoResult EXCEPT !.raised = "RuntimeError"]]
            /\ gets' = [gets EXCEPT ![t] = @ + 1]
            /\ tpc' = tpc
       ELSE /\ tres' = [tres EXCEPT ![t] = NoResult]
            /\ tpc' = [tpc EXCEPT ![t] = "lock"]
            /\ gets' = gets
    /\ UNCHANGED <<psVars, scn, nthreads, proxyVars, in_a_reactor,
                   partial_accessed, genVars, lock, QUIT_EVENT, pc, st, rr,
                   hist>>

blame(t) == \E n \in {q[1] : q \in Requests(scn)} : ViewProperty(t, n)

stack(t) == \E n \in {q[1] : q \in Requests(scn)} : ViewProperty(t, n)

\* the repositories the views are called on by two threads
ViewScenarios == {"dnra", "blamer"}

InitViews ==
    /\ scn \in ViewScenarios
    /\ InitPS
    /\ InitNoItems
    /\ InitProxies
    /\ InitGenerator
    /\ InitCallers(2)

NextViews == NextRelay \/ \E t \in Threads : blame(t) \/ stack(t)

SpecViews == InitViews /\ [][NextViews]_vars

(***************************************************************************)
(* Properties of the metadata generator                                    *)
(***************************************************************************)
\* node.metadata as a mapping, from the current stacks
Metadata(n) == AsDict(scn, static_set, layers, n)

\* the first build of the run is over and no further get was called
FirstBuildOver ==
    /\ hist.build = 1
    /\ hist.outcome # "none"
    /\ pc = "idle"
    /\ \A t \in Threads : \/ tpc[t] = "read" /\ gets[t] = 0
                          \/ tpc[t] = "idle" /\ gets[t] = 1

\* repositories whose reactors read only what reactors before them return
DagScenarios == {"chain", "cross", "dnra", "prov", "quiet", "probe"}

\* how the first build ends, by the repository and the path asked for
ExpectedEnd(s, q) ==
    CASE s = "chain" ->
           [outcome |-> "returned", A |-> ("a" :> 1) @@ ("b" :> 2),
            B |-> EmptyMapping]
      [] s = "cross" /\ q[1] = "A" ->
           [outcome |-> "returned", A |-> ("peer" :> 7), B |-> ("name" :> 7)]
      [] s = "dnra" ->
           [outcome |-> "returned", A |-> ("a" :> 1), B |-> EmptyMapping]
      [] s = "prov" /\ q[2] = <<"a">> ->
           [outcome |-> "PersistentKeyError", A |-> EmptyMapping,
            B |-> EmptyMapping]
      [] s = "quiet" /\ q[2] = <<"a">> ->
           [outcome |-> "returned", A |-> EmptyMapping, B |-> EmptyMapping]
      [] s \in {"prov", "quiet"} /\ q[2] = <<>> ->
           [outcome |-> "returned", A |-> ("a" :> 2) @@ ("b" :> 1),
            B |-> EmptyMapping]
      [] s = "probe" /\ q[1] = "A" ->
           [outcome |-> "returned", A |-> EmptyMapping, B |-> EmptyMapping]
      [] OTHER ->
           [outcome |-> "returned", A |-> EmptyMapping, B |-> ("name" :> 7)]

\* C3: for reactors whose outputs form a DAG the first build ends the same way
\* and with the same consolidated metadata whatever order the reactors of a
\* pass and the nodes of the final sweep are taken in; in the two-reactor
\* example the metadata is {a: 1, b: 2}, R2 ran at least twice and there is no
\* PersistentKeyError.
C3_DeterministicConvergence ==
    (FirstBuildOver /\ scn \in DagScenarios) =>
        /\ hist.outcome = ExpectedEnd(scn, treq[1]).outcome
        /\ Metadata("A") = ExpectedEnd(scn, treq[1]).A
        /\ Metadata("B") = ExpectedEnd(scn, treq[1]).B
        /\ (scn = "chain" => hist.runs[<<"A", "R2">>] >= 2)

\* the two-reactor example converged after R2 first raised KeyError
C3_Witness ==
    /\ FirstBuildOver
    /\ scn = "chain"
    /\ hist.runs[<<"A", "R2">>] >= 3
    /\ hist.last[<<"A", "R2">>] = "returned"
    /\ Metadata("A") = ("a" :> 1) @@ ("b" :> 2)

\* a build is over: _build_node_metadata has returned or raised
BuildOver == pc = "idle" /\ hist.outcome # "none"

\* the four stages of the running or last build passed without _StartOver
Completed == hist.stages_completed

\* the nodes the build processed
Processed == StableKeys(node_stable)

\* the tier-1 layer of reactor r on node n after one more call of r on the
\* current metadata: the mapping it returns, nothing when it raises
LayerAfterRerun(n, r) ==
    LET res == ReactorOutcome(PopLayer(layers, n, r), n, r)
    IN  IF res.kind = "returned" THEN res.out ELSE EmptyMapping

\* r's installed output is what r returns on the final metadata
AtFixedPoint(n, r) == PoppedLayer(layers, n, r) = LayerAfterRerun(n, r)

C4_Bounded ==
    /\ \A n \in Nodes :
          /\ node_iterations[n] <= MAX_METADATA_ITERATIONS + 1
          /\ node_iterations[n] > MAX_METADATA_ITERATIONS =>
                (BuildOver /\ hist.outcome = "RuntimeError")
    /\ (pc = "loop" /\ hist.started) => hist.calls_this_pass >= 1
    /\ BuildOver =>
          hist.outcome \in {"returned", "PersistentKeyError", "RuntimeError"}

\* C4: every build ends (normal return, PersistentKeyError or the iteration
\* cap's RuntimeError), within the cap on the calls of __run_reactors.
C4_BuildTerminates ==
    /\ []C4_Bounded
    /\ (lock # 0) ~> (lock = 0 /\ BuildOver)

\* a build ended by the iteration cap
C4_Witness ==
    /\ BuildOver
    /\ hist.outcome = "RuntimeError"
    /\ node_iterations["A"] = MAX_METADATA_ITERATIONS + 1
    /\ tres[1].raised = "RuntimeError"

\* Counter(self.__reactor_changes).most_common(25)[0]: a pair with the highest
\* count
MostChanged(x) ==
    /\ reactor_changes[x] > 0
    /\ \A y \in Pairs : reactor_changes[y] <= reactor_changes[x]

\* C5 as stated: the flip-flop reactor never converges, the build ends with
\* the iteration-cap error and the reactor is the first of the most-changed.
C5_FlipFlopHitsCap ==
    (scn = "flip" /\ FirstBuildOver) =>
        /\ hist.outcome = "RuntimeError"
        /\ MostChanged(<<"A", "flip">>)

\* C5 amended: the reactor's own layer is popped before each call, so it
\* returns {x: 1} every time; the build converges after four calls of
\* __run_reactors, the reactor having changed once.
C5_FlipFlopConverges ==
    (scn = "flip" /\ FirstBuildOver) =>
        /\ hist.outcome = "returned"
        /\ Metadata("A") = ("x" :> 1)
        /\ reactor_changes[<<"A", "flip">>] = 1
        /\ node_iterations["A"] = 4
        /\ hist.runs[<<"A", "flip">>] = 3

C5_Witness ==
    /\ scn = "flip"
    /\ FirstBuildOver
    /\ hist.runs[<<"A", "flip">>] = 3
    /\ layers["A"] = ("flip" :> ("x" :> 1))

\* C6: __keyerrors holds exactly the pairs whose latest run in this build
\* raised KeyError (a later return or DoNotRunAgain clears the entry, and the
\* build goes on), and the build raises PersistentKeyError exactly when the
\* four stages completed with such a pair left.
C6_PersistentKeyErrors ==
    /\ keyerrors = {x \in Pairs : hist.last[x] = "KeyError"}
    /\ BuildOver =>
          (hist.outcome = "PersistentKeyError"
              <=> (Completed /\ \E x \in Pairs : hist.last[x] = "KeyError"))

\* a KeyError of an earlier run was cleared by DoNotRunAgain and the build
\* returned
C6_Witness ==
    /\ scn = "dnra"
    /\ BuildOver
    /\ hist.outcome = "returned"
    /\ hist.runs[<<"A", "once">>] = 2
    /\ hist.last[<<"A", "once">>] = "DoNotRunAgain"
    /\ keyerrors = {}

\* C8 as stated: whenever a reactor of N read the view of M, N is in
\* node_deps[M] and M is in nodes_new or had its initial run; every node gets
\* at most one initial run, and exactly one when the build completes.
C8_EveryReadIsRecorded ==
    /\ \A x \in hist.read :
          /\ x[1] \in node_deps[x[2]]
          /\ x[2] \in nodes_that_never_ran \cup nodes_that_ran_at_least_once
    /\ \A m \in Nodes :
          /\ hist.initial_runs[m] <= 1
          /\ (m \in nodes_that_ran_at_least_once <=> hist.initial_runs[m] = 1)
          /\ hist.initial_runs[m] = 1 => static_set[m]
    /\ Completed => nodes_that_never_ran = {}

\* C8 amended: the same for the reads of reactor runs that returned or raised
\* KeyError; what a run that raised DoNotRunAgain read is dropped.
C8_ReportedReadIsRecorded ==
    /\ \A x \in hist.reported :
          /\ x[1] \in node_deps[x[2]]
          /\ x[2] \in nodes_that_never_ran \cup nodes_that_ran_at_least_once
    /\ \A m \in Nodes :
          /\ hist.initial_runs[m] <= 1
          /\ (m \in nodes_that_ran_at_least_once <=> hist.initial_runs[m] = 1)
          /\ hist.initial_runs[m] = 1 => static_set[m]
    /\ Completed => nodes_that_never_ran = {}
    /\ (Completed /\ hist.outcome = "returned") =>
          \A x \in hist.reported : hist.initial_runs[x[2]] = 1

\* node B was discovered through the reactor of node A and had its initial
\* run before the build returned
C8_Witness ==
    /\ scn = "cross"
    /\ BuildOver
    /\ hist.outcome = "returned"
    /\ treq[1][1] = "A"
    /\ <<"A", "B">> \in hist.reported
    /\ "A" \in node_deps["B"]
    /\ hist.initial_runs["B"] = 1
    /\ Metadata("A") = ("peer" :> 7)

(***************************************************************************)
(* Specifications with fairness, with QUIT_EVENT, with two callers         *)
(***************************************************************************)
\* the thread that holds the lock runs on until its build is over
FairSpec == Spec /\ WF_vars(EngineNext)

NextQuit == Next \/ SetQuit

SpecQuit == Init /\ [][NextQuit]_vars

\* C9 as stated: once QUIT_EVENT is set no further stage is started, no view
\* becomes satisfied and no PersistentKeyError is raised.
C9_QuitStopsAtEveryStage ==
    [][QUIT_EVENT =>
          /\ pc' \in {"triggered", "unstable", "withdeps", "mark"} => pc' = pc
          /\ \A n \in Nodes : satisfied'[n] => satisfied[n]
          /\ hist'.outcome = "PersistentKeyError" =>
                hist.outcome = "PersistentKeyError"]_vars

\* C9 amended: QUIT_EVENT is polled at the head of the loop only, that is at
\* entry and after every _StartOver; when the poll finds it set the loop is
\* left, and from then on no stage runs, no view becomes satisfied and the
\* build returns without PersistentKeyError.
C9_QuitPolledAtLoopHead ==
    [][/\ (pc = "loop" /\ QUIT_EVENT /\ pc' # pc) =>
              (pc' = "after" /\ hist'.quit_seen)
       /\ (hist.quit_seen /\ lock # 0) =>
              /\ pc' \in {"after", "idle"}
              /\ \A n \in Nodes : satisfied'[n] => satisfied[n]
              /\ hist'.outcome \in {"none", "returned"}
       /\ (QUIT_EVENT /\ hist'.outcome = "PersistentKeyError") =>
              hist.outcome = "PersistentKeyError"]_vars

\* a build left by the poll before its stages completed, and no view
\* satisfied
C9_Witness ==
    /\ BuildOver
    /\ hist.quit_seen
    /\ hist.outcome = "returned"
    /\ ~Completed
    /\ \A n \in Nodes : ~satisfied[n]
    /\ nodes_that_ran_at_least_once # {}

\* the scenarios two callers are run on
ThreadScenarios == {"chain", "cross"}

InitThreads ==
    /\ scn \in ThreadScenarios
    /\ InitPS
    /\ InitNoItems
    /\ InitProxies
    /\ InitGenerator
    /\ InitCallers(2)

SpecThreads == InitThreads /\ [][Next]_vars

\* C7: builds exclude each other, and a get from outside the reactors reads
\* the stack only after it went through the build of its view: it never
\* skips the build because another thread is executing a reactor.
C7_GetsWaitForTheBuild ==
    /\ Cardinality({t \in Threads : tpc[t] = "build"}) <= 1
    /\ \A t \in Threads : tpc[t] = "read" => ~tres[t].skipped

(***************************************************************************)
(* PathSet on its own                                                      *)
(***************************************************************************)
InitPathSet ==
    /\ scn = "chain"
    /\ InitPS
    /\ InitNoItems
    /\ InitProxies
    /\ InitGenerator
    /\ InitCallers(1)

PathSet_add(p) ==
    /\ ps' = PathSetAdd(ps, p)
    /\ ps_last' = [path |-> p, returned |-> PathSetAddReturns(ps, p),
                   removed |-> Cardinality(ps \ PathSetAdd(ps, p))]
    /\ UNCHANGED <<scn, nthreads, proxyVars, in_a_reactor, partial_accessed,
                   genVars, lock, QUIT_EVENT, pc, st, rr, callerVars, hist,
                   itemVars>>

NextPathSet == \E p \in PathUniverse : PathSet_add(p)

SpecPathSet == InitPathSet /\ [][NextPathSet]_vars

\* a is a prefix of b (a itself included)
IsPrefix(a, b) == Len(a) <= Len(b) /\ \A i \in 1 .. Len(a) : a[i] = b[i]

\* C11: add(p) leaves the set unchanged and returns False when a member is a
\* prefix of p (p itself included); otherwise exactly the members that have p
\* as a prefix are removed, p is inserted, every other member is kept and add
\* returns True.
C11_AddContract ==
    [][LET p == ps_last'.path
       IN  IF \E e \in ps : IsPrefix(e, p)
           THEN /\ ps' = ps
                /\ ~ps_last'.returned
           ELSE /\ ps' = {e \in ps : ~IsPrefix(p, e)} \cup {p}
                /\ ps_last'.returned]_<<ps, ps_last>>

\* an add of a covered path that left the set alone and returned False
C11_Witness ==
    /\ ps = {<<"a">>, <<"b", "a">>}
    /\ ps_last = [path |-> <<"b", "a">>, returned |-> FALSE, removed |-> 0]

\* C10: after any sequence of add operations starting from the empty set, no
\* member of the set is a proper prefix of another member; once the empty
\* path is a member it is the only member.
C10_NoProperPrefix ==
    /\ \A p \in ps : \A q \in ps :
          list_starts_with(q, p) => p = q
    /\ (<<>> \in ps => ps = {<<>>})

\* an add that replaced two longer paths by their prefix, next to an
\* unrelated member
C10_Witness ==
    /\ ps = {<<"a">>, <<"b", "a">>}
    /\ ps_last = [path |-> <<"a">>, returned |-> TRUE, removed |-> 2]

(***************************************************************************)
(* deps.py: items, selectors and the item lists given to                   *)
(* prepare_dependencies                                                    *)
(***************************************************************************)
\* the two halves of a selector or item id, as selector.split(":", 1) gives
\* them: "pkg:a" is Sel("pkg", "a"), "tag:t" is Sel("tag", "t"), "file:" is
\* Sel("file", "")
Sel(type, name) == [type |-> type, name |-> name]

\* an item as the flattening pass finds it: id, bundle name, tags and _deps
\* (ITEM_TYPE_NAME is the first half of the id)
Item(id, bundle, tags, deps) ==
    [id |-> id, bundle |-> bundle, tags |-> tags, deps |-> deps]

PkgA == Sel("pkg", "a")
PkgB == Sel("pkg", "b")
PkgC == Sel("pkg", "c")
FileC == Sel("file", "c")
FileX == Sel("file", "x")
FileY == Sel("file", "y")
SvcA == Sel("svc", "a")
SvcB == Sel("svc", "b")
DirD == Sel("dir", "d")

\* item.block_concurrent(node_os, node_os_version) of each item class: the
\* kinds an item of this kind must not run in parallel with
block_concurrent(kind) ==
    CASE kind = "pkg" -> <<"pkg">>
      [] kind = "t1" -> <<"t2">>
      [] kind = "t3" -> <<"t4">>
      [] kind = "t5" -> <<"t2", "t4">>
      [] OTHER -> <<>>

\* the named item lists
GraphNames ==
    {"tagdep", "bundledep", "drop", "kindsel", "missing", "cycle", "ring",
     "pkgs", "overlap", "bridge"}

GraphItems(g) ==
    CASE g = "tagdep" ->
           <<Item(PkgA, "one", {}, <<Sel("tag", "t")>>),
             Item(PkgB, "one", {"t"}, <<FileC>>),
             Item(FileC, "one", {}, <<>>)>>
      [] g = "bundledep" ->
           <<Item(SvcA, "one", {}, <<Sel("bundle", "two")>>),
             Item(SvcB, "two", {}, <<FileC>>),
             Item(FileC, "one", {}, <<>>)>>
      [] g = "drop" ->
           <<Item(PkgA, "one", {}, <<Sel("tag", "nonexistent"), FileC>>),
             Item(FileC, "one", {"t"}, <<>>)>>
      [] g = "kindsel" ->
           <<Item(SvcA, "one", {}, <<Sel("file", "")>>),
             Item(FileC, "one", {}, <<FileX>>),
             Item(FileX, "one", {}, <<>>)>>
      [] g = "missing" ->
           <<Item(PkgA, "one", {}, <<Sel("pkg", "zz"), FileC>>),
             Item(FileC, "one", {}, <<>>)>>
      [] g = "cycle" ->
           <<Item(SvcA, "one", {}, <<SvcB>>),
             Item(SvcB, "one", {}, <<SvcA, FileY>>),
             Item(FileY, "one", {}, <<FileX>>),
             Item(FileX, "one", {}, <<>>),
             Item(DirD, "one", {}, <<SvcA>>)>>
      [] g = "ring" ->
           <<Item(SvcA, "one", {}, <<SvcB>>),
             Item(SvcB, "one", {}, <<FileC>>),
             Item(FileC, "one", {}, <<SvcA>>)>>
      [] g = "pkgs" ->
           <<Item(PkgA, "one", {}, <<>>),
             Item(PkgB, "one", {}, <<FileC>>),
             Item(PkgC, "one", {}, <<PkgA>>),
             Item(FileC, "one", {}, <<>>)>>
      [] g = "overlap" ->
           <<Item(Sel("t1", "a"), "one", {}, <<>>),
             Item(Sel("t2", "a"), "one", {}, <<>>),
             Item(Sel("t5", "a"), "one", {}, <<>>)>>
      [] g = "bridge" ->
           <<Item(Sel("t1", "a"), "one", {}, <<>>),
             Item(Sel("t3", "a"), "one", {}, <<>>),
             Item(Sel("t5", "a"), "one", {}, <<>>)>>

\* the elements of a sequence
Range(seq) == {seq[k] : k \in 1 .. Len(seq)}

\* the orders a list can come in
Perms(seq) ==
    {[k \in 1 .. Len(seq) |-> seq[f[k]]] :
        f \in {h \in [1 .. Len(seq) -> 1 .. Len(seq)] :
                  \A x, y \in 1 .. Len(seq) : x # y => h[x] # h[y]}}

\* three items with every choice of dependencies between them
GeneratedIds == <<PkgA, PkgB, FileC>>

GeneratedItems ==
    {[k \in 1 .. 3 |->
         Item(GeneratedIds[k], "one", {}, d[k])] :
       d \in {e \in [1 .. 3 -> {<<>>, <<PkgA>>, <<PkgB>>, <<FileC>>,
                                <<PkgA, PkgB>>, <<PkgA, FileC>>,
                                <<PkgB, FileC>>}] :
                 \A k \in 1 .. 3 : GeneratedIds[k] \notin Range(e[k])}}

\* an item list with the _deps of the items in `rev` the other way round
RECURSIVE Reverse(_)
Reverse(seq) ==
    IF seq = <<>> THEN <<>> ELSE Append(Reverse(Tail(seq)), Head(seq))

WithDepsReversed(list, rev) ==
    [k \in 1 .. Len(list) |->
        IF k \in rev THEN [list[k] EXCEPT !.deps = Reverse(@)] ELSE list[k]]

(***************************************************************************)
(* deps.py: resolve_selector, find_item, _flatten_dependencies             *)
(***************************************************************************)
\* filter(cond, items): the items for which cond holds, in list order
RECURSIVE FilterSeq(_, _)
FilterSeq(seq, keep) ==
    IF seq = <<>> THEN <<>>
    ELSE IF Head(seq) \in keep
         THEN <<Head(seq)>> \o FilterSeq(Tail(seq), keep)
         ELSE FilterSeq(Tail(seq), keep)

\* find_item that returns nothing instead of raising NoSuchItem
find_item_without_raise(item_id, list) ==
    LET hits == FilterSeq(list, {i \in Range(list) : i.id = item_id})
    IN  [raised |-> "none", lazy |-> FALSE,
         found |-> IF hits = <<>> THEN <<>> ELSE <<hits[1]>>]

\* find_item(item_id, items): the first item with this id; NoSuchItem when
\* there is none
find_item(item_id, list) ==
    LET hits == FilterSeq(list, {i \in Range(list) : i.id = item_id})
    IN  IF hits = <<>>
        THEN [raised |-> "NoSuchItem", found |-> <<>>, lazy |-> FALSE]
        ELSE [raised |-> "none", found |-> <<hits[1]>>, lazy |-> FALSE]

\* resolve_selector(selector, items).  For "bundle:", "tag:" and "kind:"
\* selectors the result is a filter object, an iterator that can be gone
\* through once (lazy); for an item id it is a list of one item.  The third
\* branch compares ITEM_TYPE_NAME with selector_name, the empty string.
resolve_selector(selector, list) ==
    IF selector.type = "bundle"
    THEN [raised |-> "none", lazy |-> TRUE,
          found |-> FilterSeq(list, {i \in Range(list) :
                                        i.bundle = selector.name})]
    ELSE IF selector.type = "tag"
    THEN [raised |-> "none", lazy |-> TRUE,
          found |-> FilterSeq(list, {i \in Range(list) :
                                        selector.name \in i.tags})]
    ELSE IF selector.name = ""
    THEN [raised |-> "none", lazy |-> TRUE,
          found |-> FilterSeq(list, {i \in Range(list) :
                                        i.id.type = selector.name})]
    ELSE find_item(selector, list)

\* list.remove(x): the list without the first x
RECURSIVE RemoveFirst(_, _)
RemoveFirst(seq, x) ==
    IF seq = <<>> THEN <<>>
    ELSE IF Head(seq) = x THEN Tail(seq)
    ELSE <<Head(seq)>> \o RemoveFirst(Tail(seq), x)

\* depth of recursion at which the interpreter gives up (RecursionError)
RecursionLimit == 7

\* the ids of an item list
IdsOf(list) == {list[k].id : k \in 1 .. Len(list)}

\* the state the flattening pass works on: the list, and per item id its
\* _deps, its _flattened_deps (present for the ids in `has`), the number of
\* calls of _flatten_deps_for_item for it, and the exception raised
FlattenStart(list) ==
    [list |-> list,
     deps |-> [i \in IdsOf(list) |->
                  (CHOOSE it \in Range(list) : it.id = i).deps],
     fd |-> [i \in IdsOf(list) |-> {}],
     has |-> {},
     calls |-> [i \in IdsOf(list) |-> 0],
     err |-> "none",
     err_item |-> Sel("", ""), err_bundle |-> "", err_dep |-> Sel("", "")]

\* hasattr(dep_item, '_flattened_deps') taken to be always false
HasFlattenedDeps_never(fs, i) == FALSE

\* hasattr(dep_item, '_flattened_deps')
HasFlattenedDeps(fs, i) == i \in fs.has

\* what the loop `for dep_item in dep_items` goes through after
\* list(dep_items) was evaluated: a filter object is used up by then
IteratedAfterList(res) == IF res.lazy THEN <<>> ELSE res.found

RECURSIVE flatten_deps_for_item(_, _, _)
RECURSIVE FlattenDepLoop(_, _, _, _, _)
RECURSIVE FlattenDepItemLoop(_, _, _, _, _)

\* _flatten_deps_for_item(item, items); the sorted() at its end leaves the
\* members as they are
flatten_deps_for_item(fs, i, depth) ==
    IF depth > RecursionLimit
    THEN [fs EXCEPT !.err = "RecursionError"]
    ELSE FlattenDepLoop(
             [fs EXCEPT !.fd[i] = Range(fs.deps[i]),
                        !.has = @ \cup {i},
                        !.calls[i] = @ + 1],
             i, fs.deps[i], 1, depth)

\* for dep in item._deps.copy(), from its k-th turn on
FlattenDepLoop(fs, i, copy, k, depth) ==
    IF fs.err # "none" \/ k > Len(copy) THEN fs
    ELSE LET dep == copy[k]
             res == resolve_selector(dep, fs.list)
         IN  IF res.raised = "NoSuchItem"
             THEN [fs EXCEPT !.err = "ItemDependencyError",
                             !.err_item = i,
                             !.err_bundle =
                                 (CHOOSE it \in Range(fs.list) :
                                     it.id = i).bundle,
                             !.err_dep = dep]
             ELSE IF res.found # <<>>
             THEN FlattenDepLoop(
                      FlattenDepItemLoop(fs, i, IteratedAfterList(res), 1,
                                         depth),
                      i, copy, k + 1, depth)
             ELSE FlattenDepLoop(
                      [fs EXCEPT !.deps[i] = RemoveFirst(@, dep)],
                      i, copy, k + 1, depth)

\* for dep_item in dep_items, from its j-th turn on
FlattenDepItemLoop(fs, i, dep_items, j, depth) ==
    IF fs.err # "none" \/ j > Len(dep_items) THEN fs
    ELSE LET d == dep_items[j].id
             inner == IF HasFlattenedDeps(fs, d) THEN fs
                      ELSE flatten_deps_for_item(fs, d, depth + 1)
         IN  IF inner.err # "none" THEN inner
             ELSE FlattenDepItemLoop(
                      [inner EXCEPT !.fd[i] = @ \cup inner.fd[d]],
                      i, dep_items, j + 1, depth)

\* the first loop of _flatten_dependencies, from the k-th item on
RECURSIVE FlattenAll(_, _)
FlattenAll(fs, k) ==
    IF fs.err # "none" \/ k > Len(fs.list) THEN fs
    ELSE FlattenAll(
             IF HasFlattenedDeps(fs, fs.list[k].id) THEN fs
             ELSE flatten_deps_for_item(fs, fs.list[k].id, 1),
             k + 1)

\* the second loop of _flatten_dependencies: _incoming_deps of item i
IncomingDeps(fs, i) == {j \in IdsOf(fs.list) : i \in fs.fd[j]}

(***************************************************************************)
(* deps.py: _inject_concurrency_blockers                                   *)
(***************************************************************************)
\* every selector of the item lists, in the order sorted() puts the strings
SortedSelectors ==
    <<Sel("bundle", "two"), DirD, Sel("file", ""), FileC, FileX, FileY,
      PkgA, PkgB, PkgC, Sel("pkg", "zz"), SvcA, SvcB, Sel("t1", "a"),
      Sel("t2", "a"), Sel("t3", "a"), Sel("t5", "a"),
      Sel("tag", "nonexistent"), Sel("tag", "t")>>

\* sorted(item._flattened_deps)
Sorted(set) == FilterSeq(SortedSelectors, set)

\* the kinds of items (ITEM_TYPE_NAME of the item classes)
Kinds == <<"dir", "file", "pkg", "svc", "t1", "t2", "t3", "t5">>

\* the kinds of the item classes with a non-empty block_concurrent
BlockingKinds(list) ==
    {i.type : i \in {j \in IdsOf(list) : block_concurrent(j.type) # <<>>}}

\* one turn of `for item_type in item_types`: every group that holds one of
\* the kinds of block_concurrent is extended by them; the else belongs to
\* the loop over chain_groups, which no break ever leaves, so the list is
\* appended as a group of its own every time
ChainGroupsAfter(chain_groups, kind) ==
    LET blocked == <<kind>> \o block_concurrent(kind)
    IN  Append([g \in 1 .. Len(chain_groups) |->
                   IF Range(blocked) \cap Range(chain_groups[g]) # {}
                   THEN chain_groups[g] \o blocked
                   ELSE chain_groups[g]],
               blocked)

\* chain_groups after the loop over item_types taken in the given order
RECURSIVE ChainGroups(_, _)
ChainGroups(chain_groups, item_types) ==
    IF item_types = <<>> THEN chain_groups
    ELSE ChainGroups(ChainGroupsAfter(chain_groups, Head(item_types)),
                     Tail(item_types))

\* x in seq
InSeq(x, seq) == \E k \in 1 .. Len(seq) : seq[k] = x

\* the while loop that daisy-chains the items of one group.  cs holds, per
\* item id, _deps, _flattened_deps, _concurrency_deps and __deps
RECURSIVE ChainLoop(_, _, _, _)
ChainLoop(cs, type_items, processed_items, previous_item) ==
    IF Len(processed_items) >= Len(type_items) THEN cs
    ELSE LET free == FilterSeq(type_items,
                         {i \in Range(type_items) :
                             cs.own[i] = <<>> /\ ~InSeq(i, processed_items)})
         IN  IF free = <<>> THEN cs
             ELSE LET item == free[1]
                      add == /\ previous_item # Sel("", "")
                             /\ ~InSeq(previous_item, cs.deps[item])
                      linked ==
                          IF add
                          THEN [cs EXCEPT
                                   !.deps[item] = Append(@, previous_item),
                                   !.cdeps[item] = Append(@, previous_item),
                                   !.fd[item] = Append(@, previous_item)]
                          ELSE cs
                      freed ==
                          [linked EXCEPT !.own =
                              [i \in DOMAIN @ |->
                                  IF InSeq(i, type_items)
                                  THEN RemoveFirst(@[i], item)
                                  ELSE @[i]]]
                  IN  ChainLoop(freed, type_items,
                                Append(processed_items, item), item)

\* the loop over chain_groups
RECURSIVE ChainAll(_, _, _)
ChainAll(cs, list, chain_groups) ==
    IF chain_groups = <<>> THEN cs
    ELSE LET blocked_types == Range(Head(chain_groups))
             type_items ==
                 FilterSeq([k \in 1 .. Len(list) |-> list[k].id],
                           {i \in IdsOf(list) : i.type \in blocked_types})
             own == [i \in DOMAIN cs.own |->
                        IF InSeq(i, type_items)
                        THEN FilterSeq(cs.fd[i],
                                 {d \in Range(cs.fd[i]) :
                                     d.type \in blocked_types})
                        ELSE cs.own[i]]
         IN  ChainAll(ChainLoop([cs EXCEPT !.own = own], type_items, <<>>,
                                Sel("", "")),
                      list, Tail(chain_groups))

(***************************************************************************)
(* deps.py: prepare_dependencies from the flattening pass on               *)
(***************************************************************************)
\* an item of the list with the fields the passes fill in
Given(it) ==
    [id |-> it.id, bundle |-> it.bundle, tags |-> it.tags, deps |-> it.deps,
     has_flattened_deps |-> FALSE, flattened_deps |-> <<>>,
     incoming_deps |-> {}, concurrency_deps |-> <<>>]

\* the item lists prepare_dependencies is given: a named or generated list,
\* in any order, with the _deps lists (of at most two entries) in any order
InitItems ==
    \E g \in GraphNames \cup {"generated"} :
      \E base \in (IF g = "generated" THEN GeneratedItems
                   ELSE {GraphItems(g)}) :
        \E list \in Perms(base) :
          \E rev \in SUBSET (1 .. Len(list)) :
            LET given == WithDepsReversed(list, rev)
            IN  /\ items = [k \in 1 .. Len(given) |-> Given(given[k])]
                /\ prep = "given"
                /\ prep_error = NoPrepError
                /\ prep_hist = [NoPrepHistory EXCEPT !.graph = g,
                                                     !.given = given]

InitPrepare ==
    /\ scn = "chain"
    /\ InitPS
    /\ InitItems
    /\ InitProxies
    /\ InitGenerator
    /\ InitCallers(1)

otherVars ==
    <<ps, ps_last, scn, nthreads, proxyVars, in_a_reactor, partial_accessed,
      genVars, lock, QUIT_EVENT, pc, st, rr, callerVars, hist>>

\* _flatten_dependencies(items); an exception ends prepare_dependencies
flatten_dependencies ==
    /\ prep = "given"
    /\ LET fs == FlattenAll(FlattenStart(items), 1)
       IN  /\ items' =
                 [k \in 1 .. Len(items) |->
                     LET i == items[k].id
                     IN  [items[k] EXCEPT
                            !.deps = fs.deps[i],
                            !.has_flattened_deps = (i \in fs.has),
                            !.flattened_deps = Sorted(fs.fd[i]),
                            !.incoming_deps =
                                IF fs.err = "none" THEN IncomingDeps(fs, i)
                                ELSE {}]]
           /\ prep' = IF fs.err = "none" THEN "flattened" ELSE "failed"
           /\ prep_error' = [NoPrepError EXCEPT
                                !.kind = fs.err, !.item = fs.err_item,
                                !.bundle = fs.err_bundle, !.dep = fs.err_dep]
           /\ prep_hist' = [prep_hist EXCEPT !.calls = fs.calls]
    /\ UNCHANGED otherVars

\* _inject_concurrency_blockers(items, node_os, node_os_version), after
\* which prepare_dependencies returns the list; item_types is a set, gone
\* through in any order
inject_concurrency_blockers ==
    /\ prep = "flattened"
    /\ \E kinds \in Perms(FilterSeq(Kinds, BlockingKinds(items))) :
         LET chain_groups == ChainGroups(<<>>, kinds)
             ids == IdsOf(items)
             at(i) == CHOOSE it \in Range(items) : it.id = i
             cs == ChainAll([deps |-> [i \in ids |-> at(i).deps],
                             fd |-> [i \in ids |-> at(i).flattened_deps],
                             cdeps |-> [i \in ids |-> <<>>],
                             own |-> [i \in ids |-> <<>>]],
                            items, chain_groups)
         IN  /\ items' = [k \in 1 .. Len(items) |->
                             [items[k] EXCEPT
                                !.deps = cs.deps[items[k].id],
                                !.flattened_deps = cs.fd[items[k].id],
                                !.concurrency_deps = cs.cdeps[items[k].id]]]
             /\ prep_hist' = [prep_hist EXCEPT !.chain_groups = chain_groups,
                                               !.item_types = kinds]
    /\ prep' = "prepared"
    /\ UNCHANGED <<prep_error, otherVars>>

NextPrepare == flatten_dependencies \/ inject_concurrency_blockers

SpecPrepare == InitPrepare /\ [][NextPrepare]_vars

(***************************************************************************)
(* Properties of the flattening pass                                       *)
(***************************************************************************)
\* selector s selects item it: an item id selects the item of that id,
\* bundle:NAME the items of the bundle, tag:T the items with the tag, kind:
\* the items of the kind
Selects(s, it) ==
    IF s.type = "bundle" THEN it.bundle = s.name
    ELSE IF s.type = "tag" THEN s.name \in it.tags
    ELSE IF s.name = "" THEN it.id.type = s.type
    ELSE it.id = s

ItemById(list, i) == CHOOSE it \in Range(list) : it.id = i

\* the entries reachable from the entries in `from` along _deps, selectors
\* expanded to the items they select
RECURSIVE DepsClosure(_, _)
DepsClosure(list, from) ==
    LET next == from \cup UNION {Range(it.deps) :
                    it \in {x \in Range(list) :
                               \E s \in from : Selects(s, x)}}
    IN  IF next = from THEN from ELSE DepsClosure(list, next)

\* everything reachable from item i along _deps
ReachableFrom(list, i) == DepsClosure(list, Range(ItemById(list, i).deps))

\* item i is on a cycle of _deps
OnCycle(list, i) ==
    \E s \in ReachableFrom(list, i) : Selects(s, ItemById(list, i))

\* C12: after the flattening pass, for every item i and every selector s in
\* i._deps, of any form, i._flattened_deps contains s and every entry of the
\* _flattened_deps of every item that s resolves to.
C12_FlattenedIsClosure ==
    prep = "flattened" =>
        \A it \in Range(items) : \A s \in Range(it.deps) :
            /\ InSeq(s, it.flattened_deps)
            /\ \A other \in Range(items) :
                  Selects(s, other) =>
                      Range(other.flattened_deps) \subseteq
                          Range(it.flattened_deps)

\* C13: after prepare, every entry of an item's _flattened_deps is reachable
\* from the item along the final _deps.
C13_FlattenedIsReachable ==
    prep = "prepared" =>
        \A it \in Range(items) :
            Range(it.flattened_deps) \subseteq ReachableFrom(items, it.id)

\* C14: after prepare, j is in i._incoming_deps exactly when i.id is in
\* j._flattened_deps, the entries appended by the concurrency-blocker pass
\* included.
C14_IncomingIsInverse ==
    prep = "prepared" =>
        \A i, j \in Range(items) :
            j.id \in i.incoming_deps <=> InSeq(i.id, j.flattened_deps)

\* the list has a cycle of _deps
HasCycle(list) == \E it \in Range(list) : OnCycle(list, it.id)

\* C15: when the _deps graph has a cycle, every item that is not itself on a
\* cycle gets as _flattened_deps exactly what is reachable from it through
\* _deps, whatever the order of the item list and of the _deps lists.
C15_ClosureOutsideCycles ==
    (prep = "flattened" /\ HasCycle(items)) =>
        \A it \in Range(items) :
            ~OnCycle(items, it.id) =>
                Range(it.flattened_deps) = ReachableFrom(items, it.id)

\* C16: the flattening pass ends without error on every item list whose
\* dependencies name existing items, cycles of any length included, and
\* _flatten_deps_for_item is entered exactly once for every item.
C16_FlatteningTerminates ==
    /\ prep_error.kind # "RecursionError"
    /\ \A i \in DOMAIN prep_hist.calls : prep_hist.calls[i] <= 1
    /\ (prep # "given" /\ prep_hist.graph # "missing") =>
          /\ prep # "failed"
          /\ \A it \in Range(items) :
                it.has_flattened_deps /\ prep_hist.calls[it.id] = 1

\* a ring of three items was flattened, each item entered once
C16_Witness ==
    /\ prep = "flattened"
    /\ prep_hist.graph = "ring"
    /\ \A it \in Range(items) :
          /\ OnCycle(items, it.id)
          /\ prep_hist.calls[it.id] = 1
          /\ {SvcA, SvcB, FileC} \ {it.id} \subseteq Range(it.flattened_deps)

(***************************************************************************)
(* Properties of the concurrency-blocker pass                              *)
(***************************************************************************)
\* the items whose kind is in the chain group
GroupItems(list, group) == {it \in Range(list) : it.id.type \in Range(group)}

\* the items of the group that `it` depends on, through _deps or
\* _flattened_deps, selectors expanded
InGroupPredecessors(list, group, it) ==
    {m \in GroupItems(list, group) :
        /\ m # it
        /\ \E s \in Range(it.deps) \cup Range(it.flattened_deps) :
              Selects(s, m)}

\* the items of the group form one chain, in an order that agrees with every
\* dependency between them
IsChained(list, group) ==
    LET members == GroupItems(list, group)
        in_order == FilterSeq(list, members)
    IN  /\ Cardinality({it \in members :
                           InGroupPredecessors(list, group, it) = {}}) = 1
        /\ \E order \in Perms(in_order) :
              /\ \A k \in 2 .. Len(order) :
                    order[k - 1] \in
                        InGroupPredecessors(list, group, order[k])
              /\ \A k, l \in 1 .. Len(order) :
                    order[l] \in InGroupPredecessors(list, group, order[k])
                        => l < k

\* C17: after prepare, the items of every blocker group form a single chain:
\* exactly one has no in-group predecessor, every other one depends on
\* another item of the group, and the chain order is a total order that
\* agrees with the original and the injected dependencies.
C17_GroupsAreChains ==
    prep = "prepared" =>
        \A g \in 1 .. Len(prep_hist.chain_groups) :
            GroupItems(items, prep_hist.chain_groups[g]) # {} =>
                IsChained(items, prep_hist.chain_groups[g])

\* the _deps graph of the list, selectors expanded, has no cycle
IsDag(list) == ~HasCycle(list)

\* C18: when the _deps graph with the selectors expanded (tag: and bundle:
\* dependencies between items of one blocker group included) is acyclic
\* before the concurrency-blocker pass, it is acyclic after it.
C18_BlockersKeepDag ==
    (prep = "prepared" /\ IsDag(prep_hist.given)) => IsDag(items)

\* two blocking kinds overlap: their lists of blocked kinds (the kind itself
\* included) share a kind
Overlap(k1, k2) ==
    (Range(block_concurrent(k1)) \cup {k1})
        \cap (Range(block_concurrent(k2)) \cup {k2}) # {}

\* k1 and k2 are linked by a chain of overlapping blocking kinds
RECURSIVE OverlapClosure(_, _)
OverlapClosure(kinds, from) ==
    LET next == from \cup {k \in kinds : \E f \in from : Overlap(f, k)}
    IN  IF next = from THEN from ELSE OverlapClosure(kinds, next)

\* C19: two blocking kinds whose blocked-kinds lists overlap, directly or
\* through a chain of overlaps, are in the same chain group, and no kind is
\* in more than one chain group, for every order of the blocking kinds.
C19_GroupsArePartition ==
    prep = "prepared" =>
        LET groups == prep_hist.chain_groups
            blocking == Range(prep_hist.item_types)
        IN  /\ \A k1 \in blocking :
                  \A k2 \in OverlapClosure(blocking, {k1}) :
                      \E g \in 1 .. Len(groups) :
                          {k1, k2} \subseteq Range(groups[g])
            /\ \A g, h \in 1 .. Len(groups) :
                  g # h => Range(groups[g]) \cap Range(groups[h]) = {}

\* the selector has the form of an item id (kind:name)
IsItemId(s) == s.type \notin {"bundle", "tag"} /\ s.name # ""

\* the dependencies of a given item that name an item id the list lacks
MissingIds(list, it) ==
    {s \in Range(it.deps) :
        IsItemId(s) /\ ~\E other \in Range(list) : other.id = s}

\* C20: a dependency selector that resolves to no item is removed from the
\* item's _deps without any error, whereas a dependency that names an item id
\* the list lacks ends prepare with an ItemDependencyError that names the
\* item, its bundle and the selector.
C20_DropVersusMissing ==
    LET given == prep_hist.given
    IN  /\ prep \in {"flattened", "prepared"} =>
              /\ prep_error = NoPrepError
              /\ \A k \in 1 .. Len(given) : \A s \in Range(given[k].deps) :
                    (~\E it \in Range(given) : Selects(s, it)) =>
                        ~InSeq(s, items[k].deps)
        /\ prep # "given" =>
              (prep = "failed" <=>
                  \E it \in Range(given) : MissingIds(given, it) # {})
        /\ prep = "failed" =>
              /\ prep_error.kind = "ItemDependencyError"
              /\ \E it \in Range(given) :
                    /\ it.id = prep_error.item
                    /\ it.bundle = prep_error.bundle
                    /\ prep_error.dep \in MissingIds(given, it)

\* needs tag:nonexistent was dropped from _deps, the other dependency kept,
\* and prepare returned
C20_Witness ==
    /\ prep = "prepared"
    /\ prep_hist.graph = "drop"
    /\ prep_error = NoPrepError
    /\ \E k \in 1 .. Len(items) :
          /\ InSeq(Sel("tag", "nonexistent"), prep_hist.given[k].deps)
          /\ items[k].deps = <<FileC>>

(***************************************************************************)
(* deps.py: the passes of prepare_dependencies before the flattening pass  *)
(***************************************************************************)
\* an item with the attributes the inject passes read: triggers,
\* triggered_by, triggered, needed_by, precedes, preceded_by, and the lists
\* they fill (_reverse_deps, _precedes_items)
Attrs(it) ==
    [id |-> it.id, bundle |-> it.bundle, tags |-> it.tags, deps |-> it.deps,
     has_flattened_deps |-> FALSE, flattened_deps |-> <<>>,
     incoming_deps |-> {}, concurrency_deps |-> <<>>,
     triggers |-> <<>>, triggered_by |-> <<>>, triggered |-> FALSE,
     needed_by |-> <<>>, precedes |-> <<>>, preceded_by |-> <<>>,
     reverse_deps |-> <<>>, precedes_items |-> <<>>]

\* an item that is only run when triggered
Triggered(it) == [Attrs(it) EXCEPT !.triggered = TRUE]

\* the item lists with triggers and reverse dependencies
TriggerGraphNames ==
    {"trig", "trigby", "trigtag", "trigkind", "untrig", "untrigkind",
     "untrigby", "trigmissing", "bymissing", "needed", "neededtag",
     "neededmissing", "precedes", "precmissing", "precedestrig",
     "unprecedes"}

TriggerGraphItems(g) ==
    CASE g = "trig" ->
           <<[Attrs(Item(FileC, "one", {}, <<>>)) EXCEPT
                 !.triggers = <<SvcA>>],
             Triggered(Item(SvcA, "two", {}, <<>>)),
             Triggered(Item(SvcB, "two", {}, <<>>))>>
      [] g = "trigby" ->
           <<Attrs(Item(FileC, "one", {}, <<>>)),
             [Triggered(Item(SvcA, "two", {}, <<FileX>>)) EXCEPT
                 !.triggered_by = <<FileC, Sel("tag", "t")>>],
             Attrs(Item(FileX, "one", {"t"}, <<>>))>>
      [] g = "trigtag" ->
           <<[Attrs(Item(FileC, "one", {}, <<>>)) EXCEPT
                 !.triggers = <<Sel("tag", "t")>>],
             Triggered(Item(SvcA, "two", {"t"}, <<>>)),
             Triggered(Item(SvcB, "one", {"t"}, <<>>))>>
      [] g = "trigkind" ->
           <<[Attrs(Item(FileC, "one", {}, <<>>)) EXCEPT
                 !.triggers = <<Sel("svc", "")>>],
             Triggered(Item(SvcA, "two", {}, <<>>))>>
      [] g = "untrig" ->
           <<[Attrs(Item(FileC, "one", {}, <<>>)) EXCEPT
                 !.triggers = <<SvcB, SvcA>>],
             Attrs(Item(SvcA, "two", {}, <<>>)),
             Triggered(Item(SvcB, "two", {}, <<>>))>>
      [] g = "untrigkind" ->
           <<[Attrs(Item(FileC, "one", {}, <<>>)) EXCEPT
                 !.triggers = <<Sel("svc", "")>>],
             Attrs(Item(SvcA, "two", {}, <<>>))>>
      [] g = "untrigby" ->
           <<Attrs(Item(FileC, "one", {}, <<>>)),
             [Attrs(Item(SvcA, "two", {}, <<>>)) EXCEPT
                 !.triggered_by = <<Sel("bundle", "one")>>]>>
      [] g = "trigmissing" ->
           <<[Attrs(Item(FileC, "one", {}, <<>>)) EXCEPT
                 !.triggers = <<Sel("svc", "zz")>>],
             Triggered(Item(SvcA, "two", {}, <<>>))>>
      [] g = "bymissing" ->
           <<Attrs(Item(FileC, "one", {}, <<>>)),
             [Triggered(Item(SvcA, "two", {}, <<>>)) EXCEPT
                 !.triggered_by = <<Sel("file", "zz")>>]>>
      [] g = "needed" ->
           <<[Attrs(Item(FileC, "one", {}, <<>>)) EXCEPT
                 !.needed_by = <<SvcA, SvcB>>],
             Attrs(Item(SvcA, "two", {}, <<FileC>>)),
             Attrs(Item(SvcB, "two", {}, <<>>))>>
      [] g = "neededtag" ->
           <<[Attrs(Item(FileC, "one", {}, <<>>)) EXCEPT
                 !.needed_by = <<Sel("tag", "t")>>],
             Attrs(Item(SvcA, "two", {"t"}, <<>>)),
             Attrs(Item(SvcB, "two", {}, <<>>))>>
      [] g = "neededmissing" ->
           <<[Attrs(Item(FileC, "one", {}, <<>>)) EXCEPT
                 !.needed_by = <<Sel("svc", "zz")>>],
             Attrs(Item(SvcA, "two", {}, <<>>))>>
      [] g = "precedes" ->
           <<Attrs(Item(FileC, "one", {}, <<>>)),
             [Triggered(Item(SvcA, "two", {}, <<>>)) EXCEPT
                 !.precedes = <<FileC>>]>>
      [] g = "precmissing" ->
           <<Attrs(Item(FileC, "one", {}, <<>>)),
             [Triggered(Item(SvcA, "two", {}, <<>>)) EXCEPT
                 !.precedes = <<Sel("file", "zz")>>]>>
      [] g = "precedestrig" ->
           <<[Triggered(Item(SvcB, "one", {}, <<>>)) EXCEPT
                 !.preceded_by = <<SvcA>>],
             Triggered(Item(SvcA, "two", {}, <<>>))>>
      [] g = "unprecedes" ->
           <<[Attrs(Item(FileC, "one", {}, <<>>)) EXCEPT
                 !.preceded_by = <<SvcA, Sel("svc", "zz")>>],
             Attrs(Item(SvcA, "two", {}, <<>>))>>

\* the state an inject pass works on: the item list and the exception
InjectStart(list) == [list |-> list, err |-> NoPrepError]

\* the item of the list with the given id
ItemAt(list, i) == CHOOSE it \in Range(list) : it.id = i

\* the exception one of the passes raises for `item` and selector `dep`
SelectorError(kind, item, dep) ==
    [NoPrepError EXCEPT !.kind = kind, !.item = item.id,
                        !.bundle = item.bundle, !.dep = dep]

\* triggering_item.triggers.append(item.id) for the items of `targets`
AppendTriggers(list, targets, x) ==
    [k \in 1 .. Len(list) |->
        IF list[k].id \in targets
        THEN [list[k] EXCEPT !.triggers = Append(@, x)] ELSE list[k]]

\* preceded_item.preceded_by.append(item.id) for the items of `targets`
AppendPrecededBy(list, targets, x) ==
    [k \in 1 .. Len(list) |->
        IF list[k].id \in targets
        THEN [list[k] EXCEPT !.preceded_by = Append(@, x)] ELSE list[k]]

\* _inject_reverse_triggers from the k-th item on; phase 1 is the loop over
\* item.triggered_by, phase 2 the loop over item.precedes, j the turn
RECURSIVE ReverseTriggers(_, _, _, _)
ReverseTriggers(ts, k, phase, j) ==
    IF ts.err.kind # "none" \/ k > Len(ts.list) THEN ts
    ELSE LET item == ts.list[k]
             selectors == IF phase = 1 THEN item.triggered_by
                          ELSE item.precedes
         IN  IF j > Len(selectors)
             THEN IF phase = 1 THEN ReverseTriggers(ts, k, 2, 1)
                  ELSE ReverseTriggers(ts, k + 1, 1, 1)
             ELSE LET res == resolve_selector(selectors[j], ts.list)
                  IN  IF res.raised = "NoSuchItem"
                      THEN [ts EXCEPT !.err =
                               SelectorError(
                                   IF phase = 1
                                   THEN "ItemDependencyError(triggered_by)"
                                   ELSE "ItemDependencyError(precedes)",
                                   item, selectors[j])]
                      ELSE ReverseTriggers(
                               [ts EXCEPT !.list =
                                   IF phase = 1
                                   THEN AppendTriggers(@, IdsOf(res.found),
                                                       item.id)
                                   ELSE AppendPrecededBy(@, IdsOf(res.found),
                                                         item.id)],
                               k, phase, j + 1)

\* add_dep(item, dep) for the items of `targets`
AddDep(list, targets, dep) ==
    [k \in 1 .. Len(list) |->
        IF list[k].id \in targets /\ ~InSeq(dep, list[k].deps)
        THEN [list[k] EXCEPT !.deps = Append(@, dep),
                             !.reverse_deps = Append(@, dep)]
        ELSE list[k]]

\* _inject_reverse_dependencies from the k-th item and j-th selector on
RECURSIVE ReverseDependencies(_, _, _)
ReverseDependencies(ts, k, j) ==
    IF ts.err.kind # "none" \/ k > Len(ts.list) THEN ts
    ELSE LET item == ts.list[k]
         IN  IF j > Len(item.needed_by)
             THEN ReverseDependencies(ts, k + 1, 1)
             ELSE LET res == resolve_selector(item.needed_by[j], ts.list)
                  IN  IF res.raised = "NoSuchItem"
                      THEN [ts EXCEPT !.err =
                               SelectorError(
                                   "ItemDependencyError(needed_by)",
                                   item, item.needed_by[j])]
                      ELSE ReverseDependencies(
                               [ts EXCEPT !.list =
                                   AddDep(@, IdsOf(res.found), item.id)],
                               k, j + 1)

\* the exception for a selected item without the 'triggered' attribute
MissingTriggered(kind, triggered_item, item) ==
    [NoPrepError EXCEPT !.kind = kind,
                        !.item = triggered_item.id,
                        !.bundle = triggered_item.bundle,
                        !.item2 = item.id,
                        !.bundle2 = item.bundle]

\* for triggered_item in triggered_items (ids, from the m-th on) of
\* _inject_trigger_dependencies, for the k-th item
RECURSIVE TriggeredItems(_, _, _, _)
TriggeredItems(ts, k, triggered_items, m) ==
    IF m > Len(triggered_items) THEN ts
    ELSE LET item == ts.list[k]
             triggered_item == ItemAt(ts.list, triggered_items[m])
         IN  IF triggered_item.triggered
             THEN TriggeredItems(
                      [ts EXCEPT !.list =
                          [x \in 1 .. Len(ts.list) |->
                              IF ts.list[x].id = triggered_item.id
                              THEN [ts.list[x] EXCEPT
                                       !.deps = Append(@, item.id)]
                              ELSE ts.list[x]]],
                      k, triggered_items, m + 1)
             ELSE [ts EXCEPT !.err =
                      MissingTriggered("BundleError(triggered)",
                                       triggered_item, item)]

\* the ids of a list of items, in order
IdSeq(found) == [k \in 1 .. Len(found) |-> found[k].id]

\* _inject_trigger_dependencies from the k-th item and j-th selector on.
\* find_item raises NoSuchItem; the pass catches KeyError only, so whether
\* it turns it into a BundleError depends on NoSuchItem being a KeyError
\* (key_error)
RECURSIVE TriggerDependencies(_, _, _, _)
TriggerDependencies(ts, k, j, key_error) ==
    IF ts.err.kind # "none" \/ k > Len(ts.list) THEN ts
    ELSE LET item == ts.list[k]
         IN  IF j > Len(item.triggers)
             THEN TriggerDependencies(ts, k + 1, 1, key_error)
             ELSE LET res == resolve_selector(item.triggers[j], ts.list)
                  IN  IF res.raised = "NoSuchItem"
                      THEN [ts EXCEPT !.err =
                               SelectorError(
                                   IF key_error THEN "BundleError(triggers)"
                                   ELSE "NoSuchItem",
                                   item, item.triggers[j])]
                      ELSE TriggerDependencies(
                               TriggeredItems(ts, k, IdSeq(res.found), 1),
                               k, j + 1, key_error)

\* for triggered_item in triggered_items of
\* _inject_preceded_by_dependencies, for the k-th item
RECURSIVE PrecedingItems(_, _, _, _)
PrecedingItems(ts, k, triggered_items, m) ==
    IF m > Len(triggered_items) THEN ts
    ELSE LET item == ts.list[k]
             triggered_item == ItemAt(ts.list, triggered_items[m])
         IN  IF triggered_item.triggered
             THEN PrecedingItems(
                      [ts EXCEPT !.list =
                          [x \in 1 .. Len(ts.list) |->
                              IF x = k /\ ts.list[x].id = triggered_item.id
                              THEN [ts.list[x] EXCEPT
                                       !.precedes_items = Append(@, item.id),
                                       !.deps = Append(@, triggered_item.id)]
                              ELSE IF ts.list[x].id = triggered_item.id
                              THEN [ts.list[x] EXCEPT
                                       !.precedes_items = Append(@, item.id)]
                              ELSE IF x = k
                              THEN [ts.list[x] EXCEPT
                                       !.deps = Append(@, triggered_item.id)]
                              ELSE ts.list[x]]],
                      k, triggered_items, m + 1)
             ELSE [ts EXCEPT !.err =
                      MissingTriggered("BundleError(precedes)",
                                       triggered_item, item)]

\* _inject_preceded_by_dependencies from the k-th item on; j = 0 is the
\* test of preceded_by and triggered at the head of the loop body
RECURSIVE PrecededByDependencies(_, _, _, _)
PrecededByDependencies(ts, k, j, key_error) ==
    IF ts.err.kind # "none" \/ k > Len(ts.list) THEN ts
    ELSE LET item == ts.list[k]
         IN  IF j = 0
             THEN IF item.preceded_by # <<>> /\ item.triggered
                  THEN [ts EXCEPT !.err =
                           [NoPrepError EXCEPT
                               !.kind = "BundleError(preceded_by)",
                               !.item = item.id, !.bundle = item.bundle]]
                  ELSE PrecededByDependencies(ts, k, 1, key_error)
             ELSE IF j > Len(item.preceded_by)
             THEN PrecededByDependencies(ts, k + 1, 0, key_error)
             ELSE LET res == resolve_selector(item.preceded_by[j], ts.list)
                  IN  IF res.raised = "NoSuchItem"
                      THEN [ts EXCEPT !.err =
                               SelectorError(
                                   IF key_error THEN "BundleError(preceding)"
                                   ELSE "NoSuchItem",
                                   item, item.preceded_by[j])]
                      ELSE PrecededByDependencies(
                               PrecedingItems(ts, k, IdSeq(res.found), 1),
                               k, j + 1, key_error)

\* the item lists with triggers prepare_dependencies is given, in any order
InitTriggerItems ==
    \E g \in TriggerGraphNames :
      \E list \in Perms(TriggerGraphItems(g)) :
        /\ items = list
        /\ prep = "listed"
        /\ prep_error = NoPrepError
        /\ prep_hist = [NoPrepHistory EXCEPT !.graph = g, !.given = list]

InitTriggers ==
    /\ scn = "chain"
    /\ InitPS
    /\ InitTriggerItems
    /\ InitProxies
    /\ InitGenerator
    /\ InitCallers(1)

\* one of the inject passes of prepare_dependencies ends: with the list it
\* leaves and prepare_dependencies going on to the next pass, or with the
\* exception that ends prepare_dependencies
PassEnds(ts, next) ==
    /\ items' = ts.list
    /\ prep' = IF ts.err.kind = "none" THEN next ELSE "failed"
    /\ prep_error' = ts.err
    /\ UNCHANGED <<prep_hist, otherVars>>

\* _inject_canned_actions (no item class of the lists has canned actions)
\* and _inject_reverse_triggers
inject_reverse_triggers ==
    /\ prep = "listed"
    /\ PassEnds(ReverseTriggers(InjectStart(items), 1, 1, 1),
                "reverse_triggers")

\* _inject_reverse_dependencies
inject_reverse_dependencies ==
    /\ prep = "reverse_triggers"
    /\ PassEnds(ReverseDependencies(InjectStart(items), 1, 1),
                "reverse_dependencies")

\* _inject_trigger_dependencies
inject_trigger_dependencies ==
    /\ prep = "reverse_dependencies"
    /\ \E key_error \in BOOLEAN :
         PassEnds(TriggerDependencies(InjectStart(items), 1, 1, key_error),
                  "trigger_dependencies")

\* _inject_preceded_by_dependencies; the flattening pass is next
inject_preceded_by_dependencies ==
    /\ prep = "trigger_dependencies"
    /\ \E key_error \in BOOLEAN :
         PassEnds(PrecededByDependencies(InjectStart(items), 1, 0, key_error),
                  "given")

\* prepare_dependencies, all its passes
NextTriggers ==
    \/ inject_reverse_triggers
    \/ inject_reverse_dependencies
    \/ inject_trigger_dependencies
    \/ inject_preceded_by_dependencies
    \/ flatten_dependencies
    \/ inject_concurrency_blockers

SpecTriggers == InitTriggers /\ [][NextTriggers]_vars

(***************************************************************************)
(* Properties of the trigger passes                                        *)
(***************************************************************************)
\* the trigger pass is over and raised nothing
TriggersInjected ==
    prep \in {"trigger_dependencies", "given", "flattened", "prepared"}

\* C21: after prepare, for every item A and every item B selected by an
\* entry of A.triggers (declared on A or translated from B.triggered_by),
\* B.triggered is true and A.id is in B._deps; when a selected B has
\* triggered = false, prepare does not get past the trigger pass, and the
\* error it raises for it names both items and their bundles.
C21_TriggerDependencies ==
    /\ prep = "prepared" =>
          /\ \A B \in Range(items) : \A s \in Range(B.triggered_by) :
                \A A \in Range(items) :
                    Selects(s, A) => InSeq(B.id, A.triggers)
          /\ \A A \in Range(items) : \A s \in Range(A.triggers) :
                \A B \in Range(items) :
                    Selects(s, B) => B.triggered /\ InSeq(A.id, B.deps)
    /\ TriggersInjected =>
          \A A \in Range(items) : \A s \in Range(A.triggers) :
              \A B \in Range(items) : Selects(s, B) => B.triggered
    /\ (prep = "failed" /\ prep_error.kind = "BundleError(triggered)") =>
          \E A \in Range(items) : \E B \in Range(items) :
              /\ \E s \in Range(A.triggers) : Selects(s, B)
              /\ ~B.triggered
              /\ prep_error.item = B.id /\ prep_error.bundle = B.bundle
              /\ prep_error.item2 = A.id /\ prep_error.bundle2 = A.bundle

\* C22: resolve_selector with a selector "KIND:" (empty name) returns
\* exactly the items of the list whose kind is KIND, raising nothing; here
\* for the kind-only selectors among the _deps the flattening pass resolved.
C22_KindOnlySelector ==
    prep \in {"flattened", "prepared"} =>
        \A it \in Range(prep_hist.given) : \A s \in Range(it.deps) :
            (s.name = "" /\ s.type \notin {"bundle", "tag"}) =>
                LET res == resolve_selector(s, prep_hist.given)
                IN  /\ res.raised = "none"
                    /\ Range(res.found) =
                          {x \in Range(prep_hist.given) : x.id.type = s.type}

C24_OnlyOtherNodesAreDeps ==
    /\ \A x \in hist.reported : x[1] # x[2]
    /\ \A n \in Nodes : n \notin node_deps[n]
    /\ \A n \in Nodes : \A r \in reactors_with_deps[n] :
          \E i \in 1 .. Len(ReadsOf(n, r)) : ReadsOf(n, r)[i].node # n

\* a call __run_reactors(m, with_deps=True, without_deps=False) made by
\* __run_triggered_nodes begins
TriggeredRunBegins(m) ==
    /\ pc' = "rr_check"
    /\ rr'.node = m /\ rr'.with_deps /\ ~rr'.without_deps /\ rr'.ret = "loop"

\* C25: when a call of __run_reactors on node N that saw a reactor change
\* ends, every node of node_deps[N] is in triggered_nodes; a node leaves
\* triggered_nodes during a build only by having its reactors run with
\* with_deps = true and without_deps = false; and the four stages never
\* complete while a node is still triggered.
C25_ChangePropagation ==
    [][/\ (pc = "rr_end" /\ pc' # "rr_end" /\ rr.any_changed) =>
              node_deps[rr.node] \subseteq triggered_nodes'
       /\ hist'.build = hist.build =>
              \A m \in triggered_nodes \ triggered_nodes' :
                  TriggeredRunBegins(m)
       /\ Completed' => triggered_nodes' = {}]_vars

\* B's reactor changed after A had read B's view, and A's cross-node
\* reactor is run again for it
C25_Witness ==
    /\ scn = "relay"
    /\ node_deps["B"] = {"A"}
    /\ hist.runs[<<"B", "src">>] = 1
    /\ hist.runs[<<"A", "sink">>] = 1
    /\ pc = "in_reactor"
    /\ rr.node = "A" /\ rr.reactor = "sink"
    /\ rr.with_deps /\ ~rr.without_deps /\ rr.ret = "loop"
    /\ triggered_nodes = {}

\* C26: when the four stages have completed without _StartOver, no node is
\* left in nodes_that_never_ran or triggered_nodes, every processed node is
\* marked stable, and the view of every processed node has _satisfied =
\* True, _metastack_came_from_cache = False and all its relevant reactors
\* among its _completed_reactors.
C26_StateAtCompletion ==
    (pc = "after" /\ Completed) =>
        /\ nodes_that_never_ran = {}
        /\ triggered_nodes = {}
        /\ \A n \in Processed :
              /\ StableOf(node_stable, n)
              /\ satisfied[n]
              /\ came_from_cache[n] = "False"
              /\ RelevantReactors(scn, requested, n) \subseteq completed[n]

\* the stages completed for both nodes after B's change was passed on to A
C26_Witness ==
    /\ pc = "after" /\ Completed
    /\ scn = "relay"
    /\ Processed = {"A", "B"}
    /\ completed["A"] = {"sink"} /\ completed["B"] = {"src"}
    /\ hist.runs[<<"A", "sink">>] >= 2

\* C27: while reactor R runs on node N, N's metastack holds no tier-1 layer
\* named R, so what R reads from N's view is computed without the mapping R
\* returned before.
C27_NoOwnOutputDuringRun ==
    pc = "in_reactor" =>
        /\ rr.reactor \notin DOMAIN layers[rr.node]
        /\ ReactorOutcome(layers, rr.node, rr.reactor) =
              ReactorOutcome(PopLayer(layers, rr.node, rr.reactor),
                             rr.node, rr.reactor)

\* a reactor that returned a mapping before is running again, its layer
\* taken off the stack
C27_Witness ==
    /\ pc = "in_reactor"
    /\ scn = "flip"
    /\ rr.reactor = "flip"
    /\ rr.old = ("x" :> 1)
    /\ hist.runs[<<"A", "flip">>] >= 1
    /\ "flip" \notin DOMAIN layers["A"]

\* C28: within a build, once reactor R on node N has raised DoNotRunAgain,
\* (N, R) stays in do_not_run_again, has no stored KeyError, and R is not
\* called on N again; a later attempt to run it changes nothing of the
\* generator or of the views.
C28_DoNotRunAgainIsFinal ==
    [][hist'.build = hist.build =>
          /\ \A x \in do_not_run_again' \ do_not_run_again :
                /\ hist'.last[x] = "DoNotRunAgain"
                /\ x \notin keyerrors'
          /\ \A x \in do_not_run_again :
                /\ x \in do_not_run_again'
                /\ x \notin keyerrors'
                /\ hist'.runs[x] = hist.runs[x]
                /\ (pc = "rr_pick" /\ x[1] = rr.node /\ x[2] \in rr.todo
                    /\ x[2] \notin rr'.todo)
                   => UNCHANGED <<proxyVars, genVars, in_a_reactor,
                                  partial_accessed>>]_vars

\* the reactor raised KeyError, then DoNotRunAgain, and a later pass over
\* the pending reactors without deps came to it and left it out
C28_Witness ==
    /\ scn = "dnra"
    /\ <<"A", "once">> \in do_not_run_again
    /\ hist.last[<<"A", "once">>] = "DoNotRunAgain"
    /\ keyerrors = {}
    /\ pc = "rr_pick" /\ rr.node = "A" /\ rr.todo = {}
    /\ ~rr.depsonly /\ rr.without_deps
    /\ "once" \in PendingReactors(scn, requested, completed, "A")
    /\ "once" \notin reactors_with_deps["A"]
    /\ node_iterations["A"] >= 2

\* the engine's side of the state: the generator, the metastacks, the lock
\* and the position of the build
engineVars ==
    <<genVars, layers, static_set, completed, came_from_cache, lock, pc, st,
      rr, hist>>

\* C29: _in_a_reactor is true exactly while a reactor callable is running,
\* and false again however the call ends; while it is true, a get on a view
\* records the node's name in _partial_metadata_accessed_for and goes on to
\* read the stack without starting engine work, blame and stack raise
\* RuntimeError and change nothing, and no build is started.
C29_NoReentrancy ==
    [][/\ in_a_reactor <=> pc = "in_reactor"
       /\ in_a_reactor' <=> pc' = "in_reactor"
       /\ in_a_reactor =>
             /\ hist'.build = hist.build
             /\ lock' \in {lock, 0}
             /\ \A t \in Threads :
                   /\ (tpc[t] = "idle" /\ tpc'[t] # "idle") =>
                         /\ tpc'[t] = "read"
                         /\ partial_accessed' =
                               partial_accessed \cup {treq'[t][1]}
                         /\ UNCHANGED <<engineVars, in_a_reactor>>
                   /\ (tpc[t] = "idle" /\ gets'[t] # gets[t]) =>
                         /\ tres'[t].raised = "RuntimeError"
                         /\ UNCHANGED <<engineVars, proxyVars, in_a_reactor,
                                        partial_accessed>>]_vars

\* a reactor's call of blame made the build end with the exception, the flag
\* is down again, and the other thread's blame during a reactor was refused
C29_Witness ==
    /\ scn = "blamer"
    /\ pc = "idle" /\ ~in_a_reactor
    /\ hist.outcome = "ReactorError"
    /\ tres[1].raised = "ReactorError"
    /\ tres[2].raised = "RuntimeError"
    /\ "A" \in partial_accessed

(***************************************************************************)
(* Properties of the frame of __run_reactor                                *)
(***************************************************************************)
\* C30: a call of __run_reactor for (N, R) that reports changed = False (a
\* normal return with equal output, KeyError, DoNotRunAgain, or the skip of
\* a reactor in __do_not_run_again) leaves N's layer named R as it was
\* before the call.
C30_UnchangedRunKeepsLayer ==
    [][/\ (pc = "in_reactor" /\ pc' = "rr_pick"
              /\ ~Changed(ReactorOutcome(layers, rr.node, rr.reactor).kind,
                          rr.old,
                          ReactorOutcome(layers, rr.node, rr.reactor).out))
          => PoppedLayer(layers', rr.node, rr.reactor) = rr.old
       /\ (pc = "rr_pick" /\ pc' = "rr_pick")
          => \A r \in rr.todo \ rr'.todo :
                <<rr.node, r>> \in do_not_run_again
                => PoppedLayer(layers', rr.node, r)
                       = PoppedLayer(layers, rr.node, r)]_vars

(***************************************************************************)
(* Properties of failed builds                                             *)
(***************************************************************************)
\* the build leaves _build_node_metadata with one of the two errors
BuildFails ==
    /\ pc # "idle" /\ pc' = "idle"
    /\ hist'.outcome \in {"PersistentKeyError", "RuntimeError"}

\* C31: when _build_node_metadata raises MetadataPersistentKeyError or the
\* RuntimeError of the iteration cap, the view the build was entered for is
\* not left satisfied, so that a later get on it enters the engine again.
C31_FailedBuildSatisfiesNoView ==
    [][BuildFails => ~satisfied'[treq[lock][1]]]_vars

QueuedItem(id, deps, triggers, concurrency_deps, cascade_skip) ==
    [id |-> id, deps |-> deps, triggers |-> triggers,
     concurrency_deps |-> concurrency_deps, cascade_skip |-> cascade_skip]

\* the item lists an item is skipped from
\*   chain:       c needs b needs a, all with cascade_skip
\*   nocascade:   as chain, b without cascade_skip
\*   triggered:   a triggers b, b triggers c
\*   blocked:     b waits for a only because they must not run in parallel
\*   depscycle:   _deps form a cycle a -> c -> b -> a, all with cascade_skip
\*   trigpair:    a triggers b, b triggers a; c needs a
\*   trigloop:    a triggers b, b triggers c, c triggers b; d needs a
\*   trigmissing: a triggers an item that is not in the list
SkipGraphNames ==
    {"chain", "nocascade", "triggered", "blocked", "depscycle", "trigpair",
     "trigloop", "trigmissing"}

SkipGraphItems(g) ==
    CASE g = "chain" ->
           <<QueuedItem(PkgA, <<>>, <<>>, <<>>, TRUE),
             QueuedItem(PkgB, <<PkgA>>, <<>>, <<>>, TRUE),
             QueuedItem(FileC, <<PkgB>>, <<>>, <<>>, TRUE)>>
      [] g = "nocascade" ->
           <<QueuedItem(PkgA, <<>>, <<>>, <<>>, TRUE),
             QueuedItem(PkgB, <<PkgA>>, <<>>, <<>>, FALSE),
             QueuedItem(FileC, <<PkgB, PkgA>>, <<>>, <<>>, TRUE)>>
      [] g = "triggered" ->
           <<QueuedItem(PkgA, <<>>, <<SvcA>>, <<>>, TRUE),
             QueuedItem(SvcA, <<PkgA>>, <<SvcB>>, <<>>, TRUE),
             QueuedItem(SvcB, <<SvcA, PkgA>>, <<>>, <<>>, TRUE)>>
      [] g = "blocked" ->
           <<QueuedItem(PkgA, <<>>, <<>>, <<>>, TRUE),
             QueuedItem(PkgB, <<PkgA>>, <<>>, <<PkgA>>, TRUE),
             QueuedItem(FileC, <<PkgB>>, <<>>, <<>>, TRUE)>>
      [] g = "depscycle" ->
           <<QueuedItem(PkgA, <<FileC>>, <<>>, <<>>, TRUE),
             QueuedItem(PkgB, <<PkgA>>, <<>>, <<>>, TRUE),
             QueuedItem(FileC, <<PkgB>>, <<>>, <<>>, TRUE)>>
      [] g = "trigpair" ->
           <<QueuedItem(SvcA, <<SvcB>>, <<SvcB>>, <<>>, TRUE),
             QueuedItem(SvcB, <<SvcA>>, <<SvcA>>, <<>>, TRUE),
             QueuedItem(FileC, <<SvcA>>, <<>>, <<>>, TRUE)>>
      [] g = "trigloop" ->
           <<QueuedItem(PkgA, <<>>, <<SvcA>>, <<>>, TRUE),
             QueuedItem(SvcA, <<PkgA, SvcB>>, <<SvcB>>, <<>>, TRUE),
             QueuedItem(SvcB, <<SvcA>>, <<SvcA>>, <<>>, TRUE),
             QueuedItem(FileC, <<PkgA>>, <<>>, <<>>, TRUE)>>
      [] g = "trigmissing" ->
           <<QueuedItem(PkgA, <<>>, <<FileX>>, <<>>, TRUE),
             QueuedItem(PkgB, <<PkgA>>, <<>>, <<>>, TRUE),
             QueuedItem(FileC, <<PkgB>>, <<>>, <<>>, FALSE)>>

RECURSIVE has_trigger_path(_, _, _, _)
RECURSIVE TriggerPathLoop(_, _, _, _, _)

\* _has_trigger_path(items, item, target_item_id): "True", "False", or
\* "RecursionError" when the recursion goes deeper than the interpreter
\* allows
has_trigger_path(list, item, target_item_id, depth) ==
    IF depth > RecursionLimit THEN "RecursionError"
    ELSE IF target_item_id \in Range(item.triggers) THEN "True"
    ELSE TriggerPathLoop(list, item.triggers, 1, target_item_id, depth)

\* for triggered_id in item.triggers, from its k-th turn on
TriggerPathLoop(list, triggers, k, target_item_id, depth) ==
    IF k > Len(triggers) THEN "False"
    ELSE LET res == find_item(triggers[k], list)
         IN  IF res.raised = "NoSuchItem"
             THEN TriggerPathLoop(list, triggers, k + 1, target_item_id,
                                  depth)
             ELSE LET sub == has_trigger_path(list, res.found[1],
                                              target_item_id, depth + 1)
                  IN  IF sub = "False"
                      THEN TriggerPathLoop(list, triggers, k + 1,
                                           target_item_id, depth)
                      ELSE sub

\* remove_dep_from_items(items, dep)
remove_dep_from_items(list, dep) ==
    [k \in 1 .. Len(list) |-> [list[k] EXCEPT !.deps = RemoveFirst(@, dep)]]

RECURSIVE DependentsLoop(_, _, _, _)

\* the first loop of remove_item_dependents, from the k-th item on: rs holds
\* the list, removed_items and the exception raised
DependentsLoop(rs, k, dep_item, depth) ==
    IF rs.err # "none" \/ k > Len(rs.list) THEN rs
    ELSE LET item == rs.list[k]
         IN  IF dep_item.id \notin Range(item.deps)
             THEN DependentsLoop(rs, k + 1, dep_item, depth)
             ELSE LET path == has_trigger_path(rs.list, dep_item, item.id,
                                               depth + 1)
                      without ==
                          [rs EXCEPT !.list[k].deps =
                                         RemoveFirst(@, dep_item.id)]
                  IN  IF path = "RecursionError"
                      THEN [rs EXCEPT !.err = "RecursionError"]
                      ELSE IF path = "True"
                      THEN DependentsLoop(without, k + 1, dep_item, depth)
                      ELSE IF dep_item.id \in Range(item.concurrency_deps)
                      THEN DependentsLoop(without, k + 1, dep_item, depth)
                      ELSE DependentsLoop(
                               [rs EXCEPT !.removed = Append(@, item)],
                               k + 1, dep_item, depth)

RECURSIVE remove_item_dependents(_, _, _)
RECURSIVE CascadeLoop(_, _, _, _)

\* remove_item_dependents(items, dep_item): the list it returns, the removed
\* items it returns, and the exception raised
remove_item_dependents(list, dep_item, depth) ==
    IF depth > RecursionLimit
    THEN [list |-> list, removed |-> <<>>, err |-> "RecursionError"]
    ELSE LET first == DependentsLoop(
                          [list |-> list, removed |-> <<>>, err |-> "none"],
                          1, dep_item, depth)
             rest == FilterSeq(first.list,
                               Range(first.list) \ Range(first.removed))
             rec == CascadeLoop(
                        [list |-> rest, removed |-> <<>>, err |-> first.err],
                        first.removed, 1, depth)
         IN  [list |-> rec.list,
              removed |-> first.removed \o rec.removed,
              err |-> rec.err]

\* for removed_item in removed_items, from its k-th turn on: rs holds items,
\* all_recursively_removed_items and the exception raised
CascadeLoop(rs, removed_items, k, depth) ==
    IF rs.err # "none" \/ k > Len(removed_items) THEN rs
    ELSE LET removed_item == removed_items[k]
         IN  IF removed_item.cascade_skip
             THEN LET sub == remove_item_dependents(rs.list, removed_item,
                                                    depth + 1)
                  IN  CascadeLoop(
                          [list |-> sub.list,
                           removed |-> rs.removed \o sub.removed,
                           err |-> sub.err],
                          removed_items, k + 1, depth)
             ELSE CascadeLoop(
                      [rs EXCEPT !.list =
                          remove_dep_from_items(@, removed_item.id)],
                      removed_items, k + 1, depth)

\* an item list in any order and the item that was skipped; the skipped item
\* is still in the list, or was taken out of it before
InitQueuedItems ==
    \E g \in SkipGraphNames :
      \E list \in Perms(SkipGraphItems(g)) :
        \E dep_item \in Range(list) :
          \E listed \in BOOLEAN :
            /\ items = IF listed THEN list
                       ELSE FilterSeq(list, Range(list) \ {dep_item})
            /\ prep = "queued"
            /\ prep_error = NoPrepError
            /\ prep_hist = [graph |-> g, given |-> list,
                            skipped |-> dep_item, listed |-> listed,
                            removed |-> <<>>]

InitSkip ==
    /\ scn = "chain"
    /\ InitPS
    /\ InitQueuedItems
    /\ InitProxies
    /\ InitGenerator
    /\ InitCallers(1)

\* the call remove_item_dependents(items, dep_item)
item_skipped ==
    /\ prep = "queued"
    /\ LET res == remove_item_dependents(items, prep_hist.skipped, 1)
       IN  /\ items' = res.list
           /\ prep' = IF res.err = "none" THEN "skipped" ELSE "failed"
           /\ prep_error' = [NoPrepError EXCEPT !.kind = res.err]
           /\ prep_hist' = [prep_hist EXCEPT !.removed = res.removed]
    /\ UNCHANGED otherVars

\* split_items_without_deps(items) on the list that is left
split_items_without_deps ==
    /\ prep = "skipped"
    /\ items' = FilterSeq(items, {it \in Range(items) : it.deps # <<>>})
    /\ prep' = "split"
    /\ UNCHANGED <<prep_error, prep_hist, otherVars>>

NextSkip == item_skipped \/ split_items_without_deps

SpecSkip == InitSkip /\ [][NextSkip]_vars

(***************************************************************************)
(* Properties of remove_item_dependents                                    *)
(***************************************************************************)
\* C33: remove_item_dependents returns for every item list and every skipped
\* item, lists with a cycle of triggers or of _deps included: neither the
\* search for a trigger path nor the cascade runs into the recursion limit.
C33_RemovalTerminates ==
    /\ prep \in {"queued", "skipped", "split"}
    /\ prep_error.kind # "RecursionError"

=============================================================================
